---- MODULE Spec2Model ----
(***************************************************************************)
(* Provisioning failover engine of sky/backends/cloud_vm_ray_backend.py:   *)
(* the blocklist, the structured and text error classifiers, the zone      *)
(* generator, RetryingVmProvisioner._retry_zones / provision_with_retries  *)
(* and the caller CloudVmRayBackend._provision.                            *)
(***************************************************************************)
EXTENDS Integers, Sequences, FiniteSets, TLC

\* Python's None for every optional string-valued field.
None == "None"

\* `zones is None` (cloud without zones); a yielded zone list is never empty.
ZonesNone == <<>>

(***************************************************************************)
(* Bounds of the model.                                                    *)
(***************************************************************************)
\* Cap on the number of provisioner calls recorded in one invocation.
MaxCalls == 9
\* Cap on the length of failover_history.
MaxHistory == 7

(***************************************************************************)
(* Resources patterns and the blocklist.                                   *)
(***************************************************************************)
Resources(c, r, z, t) ==
    [cloud |-> c, region |-> r, zone |-> z, instance_type |-> t]

\* Resources.should_be_blocked_by: the relation compares the cloud, region
\* and zone fields, and a field unset in `blocked` is a wildcard.
should_be_blocked_by(self, blocked) ==
    /\ (blocked.cloud # None => self.cloud = blocked.cloud)
    /\ (blocked.region # None => self.region = blocked.region)
    /\ (blocked.zone # None => self.zone = blocked.zone)

\* _add_to_blocked_resources: insert unless an existing pattern blocks it.
add_to_blocked_resources_exact(blocked, resources) ==
    IF resources \in blocked
    THEN blocked
    ELSE blocked \cup {resources}

add_to_blocked_resources_toggle(blocked, resources) ==
    IF resources \in blocked
    THEN blocked \ {resources}
    ELSE blocked \cup {resources}

add_to_blocked_resources(blocked, resources) ==
    IF \E r \in blocked : should_be_blocked_by(resources, r)
    THEN blocked
    ELSE blocked \cup {resources}

\* Fold of _add_to_blocked_resources over the zones of a list, in order.
RECURSIVE add_zones_to_blocked(_, _, _)
add_zones_to_blocked(blocked, launchable_resources, zs) ==
    IF zs = <<>> THEN blocked
    ELSE add_zones_to_blocked(
             add_to_blocked_resources(
                 blocked, [launchable_resources EXCEPT !.zone = Head(zs)]),
             launchable_resources, Tail(zs))

(***************************************************************************)
(* Catalog: the clouds, regions and zones offered to the engine.  The      *)
(* cloud classes live outside the engine; each cloud is characterised by   *)
(* its provisioner version and by what zones_provision_loop yields.        *)
(***************************************************************************)
InstanceType == "n1"

GCP_eu == Resources("GCP", "eu", None, InstanceType)
AWS_east == Resources("AWS", "east", None, InstanceType)
IBM_ib == Resources("IBM", "ib", None, InstanceType)

\* The launchable shapes the optimizer can hand to the engine for the task.
Shapes == {GCP_eu, AWS_east, IBM_ib}

\* cloud.PROVISIONER_VERSION == ProvisionerVersion.SKYPILOT
uses_skypilot_provisioner(cloud) == cloud \in {"GCP", "AWS"}

\* cloud.zones_provision_loop(region=...): the ordered zone lists of a region.
zones_provision_loop(cloud, region) ==
    CASE cloud = "GCP" /\ region = "eu" -> << <<"z1">>, <<"z2">> >>
      [] cloud = "AWS" /\ region = "east" -> << <<"x", "y", "z">> >>
      [] cloud = "IBM" /\ region = "ib" -> << <<"p">> >>
      [] OTHER -> << >>

Range(s) == {s[i] : i \in 1..Len(s)}

\* Resources.valid_on_region_zones: a pinned zone must be among the zones.
valid_on_region_zones(res, region, zone_names) ==
    /\ (res.region # None => res.region = region)
    /\ (res.zone # None => res.zone \in Range(zone_names))

(***************************************************************************)
(* Provisioning failures.  An exception is a record: its class, the        *)
(* {code, message} entries of a ProvisionerError, and the markers its      *)
(* message text contains (a substring test is a membership test).          *)
(***************************************************************************)
ErrorEntry(code, message) == [code |-> code, message |-> message]
ProvisionerError(errors) ==
    [type |-> "ProvisionerError", errors |-> errors, str |-> {}]
OtherError(type, markers) == [type |-> type, errors |-> <<>>, str |-> markers]

gcp_handle_entry_zonal(blocked, launchable_resources, region, zone, e) ==
    add_to_blocked_resources(blocked, [launchable_resources EXCEPT !.zone = zone])

gcp_handle_entry_regional(blocked, launchable_resources, region, zone, e) ==
    add_to_blocked_resources(blocked, [launchable_resources EXCEPT !.zone = None])

\* One entry of err.errors in FailoverCloudErrorHandlerV2._gcp_handler.
\* TPU codes 3, 8, 9 are written "3", "8", "9".
gcp_handle_entry(blocked, launchable_resources, region, zone, e) ==
    LET whole_cloud == [launchable_resources EXCEPT !.region = None,
                                                    !.zone = None]
        whole_region == [launchable_resources EXCEPT !.zone = None]
        this_region == [launchable_resources EXCEPT !.region = region,
                                                    !.zone = None]
        this_zone == [launchable_resources EXCEPT !.zone = zone]
    IN  IF e.code \in {"QUOTA_EXCEEDED", "quotaExceeded"}
        THEN IF "'GPUS_ALL_REGIONS' exceeded" \in e.message
             THEN add_to_blocked_resources(blocked, whole_cloud)
             ELSE add_to_blocked_resources(blocked, whole_region)
        ELSE IF e.code \in {"ZONE_RESOURCE_POOL_EXHAUSTED",
                            "ZONE_RESOURCE_POOL_EXHAUSTED_WITH_DETAILS",
                            "UNSUPPORTED_OPERATION", "insufficientCapacity",
                            "RESOURCE_NOT_READY",
                            "RESOURCE_OPERATION_RATE_EXCEEDED",
                            "3", "8", "9", "RESOURCE_NOT_FOUND"}
        THEN add_to_blocked_resources(blocked, this_zone)
        ELSE IF e.code = "VPC_NOT_FOUND"
        THEN add_to_blocked_resources(blocked, whole_cloud)
        ELSE IF e.code = "SUBNET_NOT_FOUND_FOR_VPC"
        THEN add_to_blocked_resources(blocked, this_region)
        ELSE IF e.code = "type.googleapis.com/google.rpc.QuotaFailure"
        THEN IF "in region" \in e.message
             THEN add_to_blocked_resources(blocked, this_region)
             ELSE IF "in zone" \in e.message
             THEN add_to_blocked_resources(blocked, this_zone)
             ELSE blocked
        ELSE IF "Requested disk size cannot be smaller than the image size"
                    \in e.message
        THEN add_to_blocked_resources(blocked, whole_cloud)
        ELSE IF \/ "Policy update access denied." \in e.message
                \/ e.code = "IAM_PERMISSION_DENIED"
        THEN add_to_blocked_resources(blocked, whole_cloud)
        ELSE IF "is not found or access is unauthorized" \in e.message
        THEN add_to_blocked_resources(blocked, this_zone)
        ELSE add_to_blocked_resources(blocked, this_zone)

RECURSIVE gcp_handle_entries(_, _, _, _, _)
gcp_handle_entries(blocked, launchable_resources, region, zone, errors) ==
    IF errors = <<>> THEN blocked
    ELSE gcp_handle_entries(
             gcp_handle_entry(blocked, launchable_resources, region, zone,
                              Head(errors)),
             launchable_resources, region, zone, Tail(errors))

\* FailoverCloudErrorHandlerV2._azure_handler
azure_handler(blocked, launchable_resources, region, zones, err) ==
    IF "(ReadOnlyDisabledSubscription)" \in err.str
    THEN add_to_blocked_resources(blocked, Resources("Azure", None, None, None))
    ELSE IF "ClientAuthenticationError" \in err.str
    THEN add_to_blocked_resources(blocked, Resources("Azure", None, None, None))
    ELSE add_to_blocked_resources(blocked, [launchable_resources EXCEPT !.zone = None])

gcp_zones_assertion_nonempty(zones) == zones # ZonesNone

\* `assert zones and len(zones) == 1` at the top of _gcp_handler.
gcp_zones_assertion(zones) == zones # ZonesNone /\ Len(zones) = 1

\* FailoverCloudErrorHandlerV2._gcp_handler; the blocklist is untouched
\* when the assertion on zones fails.
gcp_handler(blocked, launchable_resources, region, zones, err) ==
    IF ~gcp_zones_assertion(zones) THEN blocked
    ELSE IF err.type # "ProvisionerError"
    THEN add_to_blocked_resources(
             blocked, [launchable_resources EXCEPT !.zone = zones[1]])
    ELSE gcp_handle_entries(blocked, launchable_resources, region, zones[1],
                            err.errors)

\* FailoverCloudErrorHandlerV2._default_handler
default_handler(blocked, launchable_resources, region, zones, err) ==
    IF zones = ZonesNone
    THEN add_to_blocked_resources(
             blocked, [launchable_resources EXCEPT !.zone = None])
    ELSE add_zones_to_blocked(blocked, launchable_resources, zones)

\* catalog.regions('lambda'), in catalog order.
LambdaRegions == <<"l1", "l2">>

RECURSIVE lambda_block_regions(_, _, _, _)
lambda_block_regions(blocked, launchable_resources, regions, output) ==
    IF regions = <<>> THEN blocked
    ELSE lambda_block_regions(
             IF Head(regions) \notin output
             THEN add_to_blocked_resources(blocked, [launchable_resources EXCEPT !.region = Head(regions), !.zone = None])
             ELSE blocked,
             launchable_resources, Tail(regions), output)

\* FailoverCloudErrorHandlerV2._lambda_handler
lambda_handler(blocked, launchable_resources, region, zones, err) ==
    IF "Regions with capacity available:" \in err.str
    THEN lambda_block_regions(blocked, launchable_resources, LambdaRegions, err.str)
    ELSE default_handler(blocked, launchable_resources, region, zones, err)

\* FailoverCloudErrorHandlerV2._scp_handler
scp_handler(blocked, launchable_resources, region, zones, err) ==
    IF err.type = "InvalidCloudCredentials"
    THEN add_to_blocked_resources(blocked, Resources("SCP", None, None, None))
    ELSE default_handler(blocked, launchable_resources, region, zones, err)

aws_handler_default(blocked, launchable_resources, region, zones, err) ==
    default_handler(blocked, launchable_resources, region, zones, err)

\* FailoverCloudErrorHandlerV2._aws_handler
aws_handler(blocked, launchable_resources, region, zones, err) ==
    IF err.type = "InvalidCloudCredentials"
    THEN add_to_blocked_resources(blocked,
                                  Resources("AWS", None, None, None))
    ELSE default_handler(blocked, launchable_resources, region, zones, err)

update_blocklist_on_error_v2_skipped(blocked, res, region, zones, err) == blocked

\* FailoverCloudErrorHandlerV2.update_blocklist_on_error: dispatch on the
\* cloud's name, falling back to _default_handler.
update_blocklist_on_error_v2(blocked, res, region, zones, err) ==
    CASE res.cloud = "GCP" -> gcp_handler(blocked, res, region, zones, err)
      [] res.cloud = "AWS" -> aws_handler(blocked, res, region, zones, err)
      [] res.cloud = "Azure" -> azure_handler(blocked, res, region, zones, err)
      [] res.cloud = "Lambda" -> lambda_handler(blocked, res, region, zones, err)
      [] res.cloud = "SCP" -> scp_handler(blocked, res, region, zones, err)
      [] OTHER -> default_handler(blocked, res, region, zones, err)

(***************************************************************************)
(* The text classifier of the `ray up` path.  The output of `ray up` is    *)
(* kept as what the classifier reads from it: whether stdout/stderr exist, *)
(* whether some line is a known error line, whether stderr reports a       *)
(* missing rsync, and whether the head-node marker line is present.        *)
(***************************************************************************)
RayUpOutput(known, rsync, head) ==
    [is_none |-> FALSE, known_errors |-> known, rsync_not_found |-> rsync,
     head_marker |-> head]
NoOutput ==
    [is_none |-> TRUE, known_errors |-> FALSE, rsync_not_found |-> FALSE,
     head_marker |-> FALSE]

V1Result(exc, blocked, flag) ==
    [exc |-> exc, blocked |-> blocked, definitely_no_nodes_launched |-> flag]

\* definitely_no_nodes_launched = not head_node_launch_may_have_been_requested
definitely_no_nodes_launched(out) == ~out.head_marker

update_blocklist_on_error_v1_gang_unblocked(blocked, res, region, zones, out) ==
    IF out.is_none
    THEN V1Result(None, blocked, FALSE)
    ELSE IF res.cloud # "IBM"
    THEN V1Result("AttributeError", blocked, FALSE)
    ELSE IF ~out.known_errors
    THEN V1Result("RuntimeError", blocked, FALSE)
    ELSE IF zones = ZonesNone
    THEN V1Result("TypeError", blocked, FALSE)
    ELSE V1Result(None, add_zones_to_blocked(blocked, res, zones),
                  definitely_no_nodes_launched(out))

\* FailoverCloudErrorHandlerV1.update_blocklist_on_error with _ibm_handler
\* and _handle_errors inlined; exc is the exception that escapes, if any.
update_blocklist_on_error_v1(blocked, res, region, zones, out) ==
    IF out.is_none
    THEN V1Result(None,
                  IF zones # ZonesNone
                  THEN add_zones_to_blocked(blocked, res, zones)
                  ELSE blocked,
                  FALSE)
    ELSE IF res.cloud # "IBM"
    THEN V1Result("AttributeError", blocked, FALSE)
    ELSE IF ~out.known_errors
    THEN V1Result("RuntimeError", blocked, FALSE)
    ELSE IF zones = ZonesNone
    THEN V1Result("TypeError", blocked, FALSE)
    ELSE V1Result(None, add_zones_to_blocked(blocked, res, zones),
                  definitely_no_nodes_launched(out))

(***************************************************************************)
(* The state store (global_user_state): one record for the cluster name.   *)
(***************************************************************************)
NoHandle == [launched_resources |-> Resources(None, None, None, None)]
Handle(res) == [launched_resources |-> res]

NoRecord == [status |-> None, handle |-> NoHandle, cluster_ever_up |-> FALSE]

\* global_user_state.add_or_update_cluster(name, handle, ..., ready)
add_or_update_cluster(record, h, ready) ==
    [status |-> IF ready THEN "UP" ELSE "INIT",
     handle |-> h,
     cluster_ever_up |-> record.cluster_ever_up \/ ready]

\* global_user_state.remove_cluster(name, terminate)
remove_cluster(record, terminate) ==
    IF terminate \/ record.status = None THEN NoRecord
    ELSE [record EXCEPT !.status = "STOPPED"]

\* Mutant: the cleanup always removes or stops the record.
post_teardown_cleanup_always(record, terminate, remove_from_db) ==
    remove_cluster(record, terminate)

\* The state-store effect of CloudVmRayBackend.post_teardown_cleanup.
post_teardown_cleanup(record, terminate, remove_from_db) ==
    IF ~terminate \/ remove_from_db
    THEN remove_cluster(record, terminate)
    ELSE record

(***************************************************************************)
(* CloudVmRayResourceHandle: the object's __dict__, the cached IPs and the  *)
(* schema migration of __setstate__. A dict is a record with the set of    *)
(* its keys; an Optional value is a sequence of length 0 (None) or 1.      *)
(***************************************************************************)
_VERSION == 10

FetchClusterInfoError == "FetchClusterInfoError"

Some(v) == <<v>>
IsNone(o) == o = <<>>

\* An IP address 10.0.0.n is modelled by n; str(ip) matters only through the
\* decimal digits of n, which Python compares character by character.
RECURSIVE digits(_)
digits(n) == IF n < 10 THEN <<n>> ELSE Append(digits(n \div 10), n % 10)

\* str.__lt__: lexicographic order
RECURSIVE str_lt(_, _)
str_lt(a, b) ==
    IF a = <<>> THEN b # <<>>
    ELSE IF b = <<>> THEN FALSE
    ELSE IF a[1] # b[1] THEN a[1] < b[1]
    ELSE str_lt(Tail(a), Tail(b))

\* Mutant: the pairs are compared by the number, not by its text.
key_lt_numeric(p, q) == p[2] < q[2]

\* The order `sorted(..., key=lambda x: x[1])` puts two pairs in.
key_lt(p, q) == str_lt(digits(p[2]), digits(q[2]))

\* sorted(): stable, ascending by the key.
RECURSIVE insert_sorted(_, _)
insert_sorted(p, s) ==
    IF s = <<>> THEN <<p>>
    ELSE IF key_lt(s[1], p) THEN <<s[1]>> \o insert_sorted(p, Tail(s))
    ELSE <<p>> \o s

RECURSIVE sorted(_)
sorted(s) == IF s = <<>> THEN <<>> ELSE insert_sorted(s[1], sorted(Tail(s)))

zip(a, b) ==
    [i \in 1..(IF Len(a) < Len(b) THEN Len(a) ELSE Len(b)) |-> <<a[i], b[i]>>]

externals(pairs) == [i \in 1..Len(pairs) |-> pairs[i][2]]
internals(pairs) == [i \in 1..Len(pairs) |-> pairs[i][1]]

\* provision_common.ClusterInfo as far as the handle reads it: the nodes'
\* (internal, external) pairs with the head first, and the SSH ports.
ClusterInfo(provider_name, pairs) ==
    [provider_name |-> provider_name, ips |-> pairs, ssh_ports |-> [i \in 1..Len(pairs) |-> 22], num_instances |-> Len(pairs)]

\* The __dict__ of a handle or a pickled state.
HandleDict(keys, version, name, name_on_cloud, old_yaml, yaml, head_ip, region, ips, ports, docker_user, info, nodes, res) ==
    [keys |-> keys, _version |-> version, cluster_name |-> name, cluster_name_on_cloud |-> name_on_cloud, cluster_yaml |-> old_yaml, _cluster_yaml |-> yaml, head_ip |-> head_ip, cluster_region |-> region, stable_internal_external_ips |-> ips, stable_ssh_ports |-> ports, docker_user |-> docker_user, cached_cluster_info |-> info, launched_nodes |-> nodes, launched_resources |-> res]

\* An object without attributes: no handle, or the one unpickling creates.
NoObject ==
    HandleDict({}, 0, None, None, None, None, <<>>, None, <<>>, <<>>, None, <<>>, 0, Resources(None, None, None, None))

\* The keys of a handle of the current schema.
CurrentKeys ==
    {"_version", "cluster_name", "cluster_name_on_cloud", "_cluster_yaml", "stable_internal_external_ips", "stable_ssh_ports", "cached_cluster_info", "launched_nodes", "launched_resources", "docker_user"}

\* os.path.expanduser('~') and the two spellings of the yaml path.
HomePath == "/home/u/c.yml"
TildePath == "~/c.yml"

\* cluster_yaml.replace(os.path.expanduser('~'), '~', 1) when it starts with it
replace_home(path) == IF path = HomePath THEN TildePath ELSE path

\* CloudVmRayResourceHandle.__init__
CloudVmRayResourceHandle(cluster_name, cluster_name_on_cloud, cluster_yaml, launched_nodes, launched_resources, stable_internal_external_ips, stable_ssh_ports, cluster_info) ==
    HandleDict(CurrentKeys, _VERSION, cluster_name, cluster_name_on_cloud, None, replace_home(cluster_yaml), <<>>, None, stable_internal_external_ips, stable_ssh_ports, None, cluster_info, launched_nodes, launched_resources)

\* What a method call returns: the object afterwards and what it raised.
Returned(self, exc) == [self |-> self, exc |-> exc]

\* cached_external_ips / cached_internal_ips
cached_external_ips(self) ==
    IF IsNone(self.stable_internal_external_ips) THEN <<>>
    ELSE Some(externals(self.stable_internal_external_ips[1]))

cached_internal_ips(self) ==
    IF IsNone(self.stable_internal_external_ips) THEN <<>>
    ELSE Some(internals(self.stable_internal_external_ips[1]))

\* Mutant: the pairs are stored in the order they were reported.
stable_order_as_reported(pairs, kubernetes) == pairs

\* The head's pair first, the others sorted by their second component;
\* Kubernetes pairs are kept as reported.
stable_order(pairs, kubernetes) ==
    IF kubernetes THEN pairs
    ELSE <<pairs[1]>> \o sorted(Tail(pairs))

\* CloudVmRayResourceHandle.update_cluster_ips. env.node_ips is what the IP
\* queries of the legacy path give (the provided lists when they are valid,
\* else backend_utils.get_node_ips): the nodes' pairs, head first, or
\* FetchClusterInfoError.
update_cluster_ips(self, cluster_info, env) ==
    LET with_info == [self EXCEPT !.cached_cluster_info = cluster_info, !.keys = @ \cup {"cached_cluster_info"}]
        fetched == env.node_ips[1]
        feasible ==
            IF ~IsNone(cluster_info) THEN externals(cluster_info[1].ips)
            ELSE IF env.use_internal_ips THEN internals(fetched) ELSE externals(fetched)
        internal ==
            IF ~IsNone(cluster_info) THEN internals(cluster_info[1].ips)
            ELSE IF env.use_internal_ips THEN feasible ELSE internals(fetched)
        base == IF ~IsNone(cluster_info) THEN with_info ELSE self
        kubernetes == ~IsNone(cluster_info) /\ cluster_info[1].provider_name = "kubernetes"
        pairs == zip(internal, feasible)
    IN  IF IsNone(cluster_info) /\ IsNone(env.node_ips)
        THEN Returned(self, FetchClusterInfoError)
        ELSE IF IsNone(cluster_info) /\ cached_external_ips(self) = Some(feasible)
        THEN Returned(self, None)
        ELSE IF Len(feasible) # Len(internal)
        THEN Returned(base, "AssertionError")
        ELSE IF ~kubernetes /\ pairs = <<>>
        THEN Returned(base, "IndexError")
        ELSE Returned([base EXCEPT !.stable_internal_external_ips = Some(stable_order(pairs, kubernetes)), !.keys = @ \cup {"stable_internal_external_ips"}], None)

(***************************************************************************)
\* gcp_utils.is_tpu_vm_pod(launched_resources)
is_tpu_vm_pod(self, env) == env.is_tpu_vm_pod /\ self.launched_resources.cloud = "GCP"

\* assert internal_ips is not None, 'update_cluster_ips failed.'
assert_cached(r) ==
    IF r.exc # None THEN r
    ELSE IF IsNone(cached_internal_ips(r.self)) THEN Returned(r.self, "AssertionError")
    ELSE r

\* CloudVmRayResourceHandle.internal_ips: the cached list, else
\* update_cluster_ips and the assertion that it filled the cache.
internal_ips(self, env) ==
    IF ~IsNone(cached_internal_ips(self)) THEN Returned(self, None)
    ELSE assert_cached(update_cluster_ips(self, <<>>, env))

\* [head_ssh_port] + [22] * (num_ips_per_node * launched_nodes - 1), where a
\* TPU pod has as many IPs per node as internal_ips() returned in r.
ssh_ports_of(r, tpu, launched_nodes) ==
    IF r.exc # None THEN r
    ELSE Returned([r.self EXCEPT !.stable_ssh_ports = Some(<<22>> \o [i \in 1..((IF tpu THEN Len(cached_internal_ips(r.self)[1]) ELSE 1) * launched_nodes - 1) |-> 22]), !.keys = @ \cup {"stable_ssh_ports"}], None)

\* CloudVmRayResourceHandle.update_ssh_ports with num_ips_per_node.
update_ssh_ports(self, env) ==
    IF ~IsNone(self.cached_cluster_info)
    THEN Returned([self EXCEPT !.stable_ssh_ports = Some(self.cached_cluster_info[1].ssh_ports), !.keys = @ \cup {"stable_ssh_ports"}], None)
    ELSE IF is_tpu_vm_pod(self, env)
    THEN ssh_ports_of(internal_ips(self, env), TRUE, self.launched_nodes)
    ELSE ssh_ports_of(Returned(self, None), FALSE, self.launched_nodes)

\* cloud.PROVISIONER_VERSION >= ProvisionerVersion.SKYPILOT
provisioner_at_least_skypilot(cloud) == uses_skypilot_provisioner(cloud) \/ cloud = "Kubernetes"

\* CloudVmRayResourceHandle._update_cluster_info. env.cluster_info is what
\* provision_lib.get_cluster_info gives, None when it raises; env.yaml_str
\* tells whether the cluster yaml is still stored.
update_cluster_info(self, env) ==
    IF ~provisioner_at_least_skypilot(self.launched_resources.cloud) THEN Returned(self, None)
    ELSE IF ~env.yaml_str THEN Returned(self, None)
    ELSE IF IsNone(env.cluster_info) THEN Returned(self, FetchClusterInfoError)
    ELSE IF env.cluster_info[1].num_instances # self.launched_nodes THEN Returned(self, FetchClusterInfoError)
    ELSE Returned([self EXCEPT !.cached_cluster_info = env.cluster_info, !.keys = @ \cup {"cached_cluster_info"}], None)

\* Mutant: a state older than version 6 gets no cluster_name_on_cloud.
migrate_name_on_cloud_skipped(state, version) == state

\* if version < 6: state['cluster_name_on_cloud'] = state['cluster_name']
migrate_name_on_cloud(state, version) ==
    IF version < 6
    THEN [state EXCEPT !.cluster_name_on_cloud = state.cluster_name, !.keys = @ \cup {"cluster_name_on_cloud"}]
    ELSE state

\* version = state.pop('_version', None); an unversioned state is -1
version_of(state) == IF "_version" \in state.keys THEN state._version ELSE -1

\* The pops at the top of __setstate__.
migrate_pop_version(state) ==
    IF "_version" \in state.keys
    THEN [state EXCEPT !._version = 0, !.keys = @ \ {"_version"}]
    ELSE [state EXCEPT !.cluster_region = None, !.keys = @ \ {"cluster_region"}]

\* if version < 2: state['_cluster_yaml'] = state.pop('cluster_yaml')
migrate_cluster_yaml(state, version) ==
    IF version < 2
    THEN [state EXCEPT !._cluster_yaml = state.cluster_yaml, !.cluster_yaml = None, !.keys = (@ \ {"cluster_yaml"}) \cup {"_cluster_yaml"}]
    ELSE state

\* if version < 3 .. if version < 5: head_ip is dropped and the three
\* fields of versions 3, 4 and 5 are set to None.
migrate_ips_ports_docker(state, version) ==
    [state EXCEPT
        !.head_ip = IF version < 3 THEN <<>> ELSE @,
        !.stable_internal_external_ips = IF version < 3 THEN <<>> ELSE @,
        !.stable_ssh_ports = IF version < 4 THEN <<>> ELSE @,
        !.docker_user = IF version < 5 THEN None ELSE @,
        !.keys = (@ \ (IF version < 3 THEN {"head_ip"} ELSE {}))
                 \cup (IF version < 3 THEN {"stable_internal_external_ips"} ELSE {})
                 \cup (IF version < 4 THEN {"stable_ssh_ports"} ELSE {})
                 \cup (IF version < 5 THEN {"docker_user"} ELSE {})]

\* if version < 9: a Kubernetes cluster's region becomes the context of its
\* cluster yaml.
migrate_region(state, version, env) ==
    IF version < 9 /\ state.launched_resources.cloud = "Kubernetes"
    THEN [state EXCEPT !.launched_resources.region = env.context]
    ELSE state

\* if version < 10: _cluster_yaml becomes None when the file is gone.
migrate_removed_yaml(state, version, env) ==
    IF version < 10 /\ state._cluster_yaml # None /\ ~env.file_exists
    THEN [state EXCEPT !._cluster_yaml = None]
    ELSE state

\* The part of __setstate__ that rewrites the pickled state, up to
\* self.__dict__.update(state). env.context is the Kubernetes context of the
\* cluster yaml, env.file_exists whether the yaml file exists.
migrated_state(state, version, env) ==
    migrate_removed_yaml(
        migrate_region(
            migrate_name_on_cloud(
                migrate_ips_ports_docker(
                    migrate_cluster_yaml(migrate_pop_version(state), version),
                    version),
                version),
            version, env),
        version, env)

\* self._version = self._VERSION, self.cached_cluster_info = None for a
\* version below 8, then self.__dict__.update(state).
dict_update(state, version) ==
    [state EXCEPT !._version = _VERSION,
                  !.keys = @ \cup {"_version"} \cup (IF version < 8 THEN {"cached_cluster_info"} ELSE {}),
                  !.cached_cluster_info = IF "cached_cluster_info" \in state.keys THEN @ ELSE <<>>]

\* try: ... except exceptions.FetchClusterInfoError: pass
pass_fetch_error(self, r) ==
    IF r.exc = FetchClusterInfoError THEN Returned(self, None) ELSE r

\* The three refreshes at the end of __setstate__, each on the result of
\* the one before.
refresh_ips(self, version, head_ip, env) ==
    IF version < 3 /\ ~IsNone(head_ip)
    THEN pass_fetch_error(self, update_cluster_ips(self, <<>>, env))
    ELSE Returned(self, None)

refresh_ports(r, version, env) ==
    IF r.exc # None THEN r
    ELSE IF version < 4 THEN update_ssh_ports(r.self, env)
    ELSE r

refresh_info(r, version, env) ==
    IF r.exc # None THEN r
    ELSE IF version < 8 THEN pass_fetch_error(r.self, update_cluster_info(r.self, env))
    ELSE r

\* CloudVmRayResourceHandle.__setstate__ on a fresh object. KeyError when a
\* state older than version 2 has no cluster_yaml.
setstate(state, env) ==
    IF version_of(state) < 2 /\ "cluster_yaml" \notin state.keys
    THEN Returned(NoObject, "KeyError")
    ELSE refresh_info(
            refresh_ports(
                refresh_ips(dict_update(migrated_state(state, version_of(state), env), version_of(state)),
                            version_of(state),
                            IF "head_ip" \in state.keys THEN state.head_ip ELSE <<>>,
                            env),
                version_of(state), env),
            version_of(state), env)

(***************************************************************************)
(* State of one CloudVmRayBackend._provision call on one cluster name.     *)
(***************************************************************************)
VARIABLES
    pc,                          \* where the flow stands
    outcome,                     \* how _provision ended ("none" while running)
    raised,                      \* the exception in flight out of _retry_zones
    dryrun,                      \* input
    retry_until_up,              \* input, read by the except clause
    launchable_retries_disabled, \* self._dag is None or no optimize target
    task_blocked_resources,      \* input task.blocked_resources
    cluster_table,               \* the state-store record of the cluster
    prev_yaml_zones,             \* availability_zone of the recorded yaml
    to_provision,
    prev_cluster_status,
    prev_handle,
    prev_cluster_ever_up,
    skip_if_config_hash_matches, \* a previous config hash is to be compared
    blocked_resources,           \* self._blocked_resources
    failover_history,
    resource_exceptions,
    quota_check,                 \* answer of check_quota_available
    zone_iter,                   \* candidates _yield_zones has yielded so far
    zones,                       \* the candidate being attempted
    handle,                      \* the handle built for the attempt
    config_dict,                 \* which config_dict _retry_zones returned
    provision_record,
    calls,                       \* provisioner calls, in order
    status_log,                  \* statuses written to the record, in order
    optimizer_calls,
    config_writes,
    classified,                  \* the last blocklist or classifier operation
                                 \* applied on its own, with arguments and result
    self_handle,                 \* __dict__ of a CloudVmRayResourceHandle
    applied,                     \* the last handle method applied, with its
                                 \* arguments and what it raised
    lock_holder,                 \* who holds the cluster's lock, or None
    proc_pc,                     \* where each _provision and _teardown stands
    n_attempts,                  \* _teardown's n_attempts
    lock_timeouts,               \* LockTimeouts _teardown has caught
    teardown_terminate,          \* _teardown's argument terminate
    ray_up_pc,                   \* where the ray up loop stands
    get_zone_pc,                 \* where each runner's _get_zone stands
    retry_cnt,                   \* _gang_schedule_ray_up's retry_cnt
    ray_up_return_value,         \* None before the first ray_up()
    to_provision_cloud,          \* the cloud that ray up launches on
    ray_up_calls,                \* calls of ray_up()
    retry_count,                 \* _get_zone's retry_count, per runner
    returncode,                  \* _get_zone's returncode, per runner
    get_zone_calls,              \* runs of the zone query, per runner
    cleanup,                     \* one post_teardown_cleanup call
    lambda_call,                 \* one _try_request_with_backoff call
    request_table,               \* the rows of the requests table
    log_files,                   \* the request ids whose log file exists
    killer,                      \* one kill_requests call
    worker,                      \* one set_request_* call
    cleaner,                     \* one clean_finished_requests_with_retention call
    now                          \* time.time()

vars == <<pc, outcome, raised, dryrun, retry_until_up, launchable_retries_disabled, task_blocked_resources, cluster_table, prev_yaml_zones, to_provision, prev_cluster_status, prev_handle, prev_cluster_ever_up, skip_if_config_hash_matches, blocked_resources, failover_history, resource_exceptions, quota_check, zone_iter, zones, handle, config_dict, provision_record, calls, status_log, optimizer_calls, config_writes, classified, self_handle, applied, lock_holder, proc_pc, n_attempts, lock_timeouts, teardown_terminate, ray_up_pc, get_zone_pc, retry_cnt, ray_up_return_value, to_provision_cloud, ray_up_calls, retry_count, returncode, get_zone_calls, cleanup, lambda_call, request_table, log_files, killer, worker, cleaner, now>>

inputs == <<dryrun, launchable_retries_disabled, task_blocked_resources, prev_yaml_zones>>
plan == <<to_provision, prev_cluster_status, prev_handle, prev_cluster_ever_up, skip_if_config_hash_matches>>
attempt == <<quota_check, zone_iter, zones, handle, config_dict, provision_record>>
store == <<cluster_table, status_log>>
bookkeeping == <<failover_history, resource_exceptions, optimizer_calls>>
handle_vars == <<self_handle, applied>>
lock_vars == <<lock_holder, proc_pc, n_attempts, lock_timeouts, teardown_terminate>>
loop_vars == <<ray_up_pc, get_zone_pc, retry_cnt, ray_up_return_value, to_provision_cloud, ray_up_calls, retry_count, returncode, get_zone_calls>>
cleanup_vars == <<cleanup>>
lambda_vars == <<lambda_call>>
request_vars == <<request_table, log_files, killer, worker, cleaner, now>>
components == <<handle_vars, lock_vars, loop_vars, cleanup_vars, lambda_vars, request_vars>>

Exc(type, no_failover, reason) ==
    [type |-> type, no_failover |-> no_failover, reason |-> reason]
NoException == Exc(None, FALSE, None)
ResourcesUnavailableError(no_failover, reason) ==
    Exc("ResourcesUnavailableError", no_failover, reason)

\* What failover_history keeps of an exception: its class and its flag.
HistoryEntry(e) == [type |-> e.type, no_failover |-> e.no_failover]

\* One application of _add_to_blocked_resources ("add"), of the structured
\* classifier ("v2") or of the text classifier ("v1"): the blocklist before,
\* the arguments, the exception that escaped and the returned flag.
Operation(op, before, res, region, zs, err, out, exc, flag, n) ==
    [op |-> op, before |-> before, resources |-> res, region |-> region, zones |-> zs, err |-> err, out |-> out, exc |-> exc, flag |-> flag, n |-> n]
NoOperation ==
    Operation("none", {}, Resources(None, None, None, None), None, ZonesNone, [type |-> None, errors |-> <<>>, str |-> {}], NoOutput, None, FALSE, 0)

Call(res, zs, ok, err) == [resources |-> res, zones |-> zs, ok |-> ok, err |-> err]
NoError == [type |-> None, errors |-> <<>>, str |-> {}]

\* Clusters the state store can hold when _provision starts: the launched
\* resources with the yaml's availability_zone, any status, and
\* cluster_ever_up either way.
PrevLaunches ==
    { <<[GCP_eu EXCEPT !.zone = "z1"], <<"z1">> >>,
      <<AWS_east, <<"x", "y">> >>,
      <<[IBM_ib EXCEPT !.zone = "p"], <<"p">> >> }

InitialRecords ==
    { <<NoRecord, ZonesNone>> } \cup
    { <<[status |-> st, handle |-> Handle(l[1]), cluster_ever_up |-> up], l[2]>> :
        st \in {"INIT", "STOPPED", "UP"}, up \in BOOLEAN, l \in PrevLaunches }

BlockedChoices ==
    { {},
      { [AWS_east EXCEPT !.zone = "x"], [AWS_east EXCEPT !.zone = "y"] },
      { Resources("GCP", "eu", None, None) } }

\* The environment a handle method runs in: what the IP queries and
\* get_cluster_info give, and what the file system and the cloud say.
Env(node_ips, use_internal_ips, tpu, file_exists, yaml_str, cluster_info) ==
    [node_ips |-> node_ips, use_internal_ips |-> use_internal_ips, is_tpu_vm_pod |-> tpu, file_exists |-> file_exists, yaml_str |-> yaml_str, context |-> "ctx", cluster_info |-> cluster_info]
NoEnv == Env(<<>>, FALSE, FALSE, FALSE, FALSE, <<>>)

\* One application of a handle method: the pickled state or the arguments,
\* the object before, the environment and what the method raised.
Applied(op, state, before, cluster_info, env, exc, n) ==
    [op |-> op, state |-> state, before |-> before, cluster_info |-> cluster_info, env |-> env, exc |-> exc, n |-> n]
NoApplied == Applied("none", NoObject, NoObject, <<>>, NoEnv, None, 0)

\* No handle is under study.
HandleIdle ==
    /\ self_handle = NoObject
    /\ applied = NoApplied

\* The processes that contend for one cluster name's lock, and the runners
\* of the zone query (one per node).
Procs == {"provision1", "provision2", "teardown"}
Runners == {1, 2}

\* No process contends for the lock.
LockIdle ==
    /\ lock_holder = None
    /\ proc_pc = [p \in Procs |-> "idle"]
    /\ n_attempts = 0
    /\ lock_timeouts = 0
    /\ teardown_terminate = FALSE

\* No retry loop is running.
LoopIdle ==
    /\ ray_up_pc = "idle"
    /\ get_zone_pc = [r \in Runners |-> "idle"]
    /\ retry_cnt = 0
    /\ ray_up_return_value = <<>>
    /\ to_provision_cloud = None
    /\ ray_up_calls = 0
    /\ retry_count = [r \in Runners |-> 0]
    /\ returncode = [r \in Runners |-> 0]
    /\ get_zone_calls = [r \in Runners |-> 0]

\* No post_teardown_cleanup is running.
NoCleanup == [pc |-> "idle", terminate |-> FALSE, purge |-> FALSE, remove_from_db |-> FALSE, cluster_yaml |-> None, prev_status |-> None, record |-> NoRecord, attempts |-> 0, queries |-> 0, answered |-> "nothing", node_status_dict |-> <<>>]
CleanupIdle == cleanup = NoCleanup

\* No Lambda API call is running.
NoLambdaCall == [pc |-> "idle", method |-> None, i |-> 0, responses |-> <<>>, error |-> None]
LambdaIdle == lambda_call = NoLambdaCall

\* An empty requests table and nobody working on it.
NoKiller == [pc |-> "idle", request_ids |-> <<>>, i |-> 1, request_record |-> <<>>, cancelled_request_ids |-> <<>>, signalled |-> {}]
NoWorker == [pc |-> "idle", op |-> None, request_id |-> <<>>, request_task |-> <<>>]
NoCleaner == [pc |-> "idle", retention_seconds |-> 0, reqs |-> {}]
RequestsIdle ==
    /\ request_table = {}
    /\ log_files = {}
    /\ killer = NoKiller
    /\ worker = NoWorker
    /\ cleaner = NoCleaner
    /\ now = 0

ComponentsIdle ==
    /\ HandleIdle
    /\ LockIdle
    /\ LoopIdle
    /\ CleanupIdle
    /\ LambdaIdle
    /\ RequestsIdle

Init ==
    /\ pc = "start"
    /\ outcome = "none"
    /\ raised = NoException
    /\ dryrun \in BOOLEAN
    /\ retry_until_up = FALSE
    /\ launchable_retries_disabled \in BOOLEAN
    /\ task_blocked_resources \in BlockedChoices
    /\ \E r \in InitialRecords :
          /\ (r[1].status = "UP" => r[1].cluster_ever_up)
          /\ cluster_table = r[1]
          /\ prev_yaml_zones = r[2]
    /\ to_provision = Resources(None, None, None, None)
    /\ prev_cluster_status = None
    /\ prev_handle = NoHandle
    /\ prev_cluster_ever_up = FALSE
    /\ skip_if_config_hash_matches = FALSE
    /\ blocked_resources = {}
    /\ failover_history = <<>>
    /\ resource_exceptions = {}
    /\ quota_check = "unchecked"
    /\ zone_iter = 0
    /\ zones = ZonesNone
    /\ handle = NoHandle
    /\ config_dict = None
    /\ provision_record = Resources(None, None, None, None)
    /\ calls = <<>>
    /\ status_log = <<>>
    /\ optimizer_calls = 0
    /\ config_writes = 0
    /\ classified = NoOperation
    /\ ComponentsIdle

(***************************************************************************)
(* CloudVmRayBackend._provision, up to the call of provision_with_retries. *)
(***************************************************************************)
\* _check_existing_cluster, then RetryingVmProvisioner.__init__.
CheckExistingCluster ==
    /\ pc = "start"
    /\ blocked_resources' = task_blocked_resources
    /\ IF cluster_table.status # None
       THEN /\ to_provision' = cluster_table.handle.launched_resources
            /\ prev_cluster_status' = cluster_table.status
            /\ prev_handle' = cluster_table.handle
            /\ prev_cluster_ever_up' = cluster_table.cluster_ever_up
            /\ skip_if_config_hash_matches' \in BOOLEAN
       ELSE /\ to_provision' \in Shapes
            /\ prev_cluster_status' = None
            /\ prev_handle' = NoHandle
            /\ prev_cluster_ever_up' = FALSE
            /\ skip_if_config_hash_matches' = FALSE
    /\ pc' = "outer"
    /\ UNCHANGED <<outcome, raised, retry_until_up, inputs, classified, components, attempt, store, bookkeeping, calls, config_writes>>

\* check_resources_fit_cluster rejects the task for the existing cluster.
ResourcesMismatch ==
    /\ pc = "start"
    /\ cluster_table.status # None
    /\ pc' = "done"
    /\ outcome' = "ResourcesMismatchError"
    /\ UNCHANGED <<raised, retry_until_up, inputs, classified, components, plan, blocked_resources, attempt, store, bookkeeping, calls, config_writes>>

(***************************************************************************)
(* RetryingVmProvisioner._yield_zones and the zone filter of _retry_zones. *)
(***************************************************************************)
\* _get_previously_launched_zones: the pinned zone, else the yaml's zones.
get_previously_launched_zones(res, yaml_zones) ==
    IF res.zone # None THEN <<res.zone>> ELSE yaml_zones

\* The candidates of a cluster that does not exist yet: the zone lists of
\* the cloud's loop that are valid for the request, narrowed to a pinned zone.
fresh_zone_candidates(res) ==
    LET loop == zones_provision_loop(res.cloud, res.region)
        Valid(zs) == zs = ZonesNone \/ valid_on_region_zones(res, res.region, zs)
        kept == SelectSeq(loop, Valid)
    IN  [i \in 1..Len(kept) |->
            IF kept[i] # ZonesNone /\ res.zone # None THEN <<res.zone>>
            ELSE kept[i]]

\* Mutant: an existing cluster walks the cloud's zone loop like a new one.
yield_zones_ignoring_previous(res, prev_status, yaml_zones) ==
    fresh_zone_candidates([res EXCEPT !.zone = None])

\* The sequence of candidates _yield_zones yields before it raises or ends.
yield_zones(res, prev_status, yaml_zones) ==
    IF prev_status # None
    THEN << get_previously_launched_zones(res, yaml_zones) >>
    ELSE fresh_zone_candidates(res)

\* Mutant: the blocked zones are not removed.
remaining_unblocked_zones_unfiltered(blocked, res, region, zs) == zs

\* The zones of a yielded list that no blocklist pattern blocks.
remaining_unblocked_zones(blocked, res, region, zs) ==
    LET Unblocked(z) ==
            ~\E b \in blocked :
                should_be_blocked_by([res EXCEPT !.region = region, !.zone = z], b)
    IN  SelectSeq(zs, Unblocked)

\* What _yield_zones raises after its single candidate for an existing
\* cluster: "AssertionError" stands for the failed assert.
relaunch_failure(prev_status, ever_up) ==
    IF ever_up THEN ResourcesUnavailableError(TRUE, "relaunch_failed")
    ELSE IF prev_status # "INIT" THEN Exc("AssertionError", FALSE, "yield_zones")
    ELSE ResourcesUnavailableError(FALSE, "relaunch_failed")

(***************************************************************************)
(* RetryingVmProvisioner.provision_with_retries and _retry_zones.          *)
(***************************************************************************)
ConfigErrors == {"InvalidClusterNameError", "NotSupportedError", "CloudUserIdentityError"}

\* Top of the retry loop: cluster name, user identity and feature checks.
\* A configuration error blocks the cloud and goes on to failover.
CheckLaunchable ==
    /\ pc = "outer"
    /\ \/ /\ pc' = "retry_zones"
          /\ UNCHANGED <<blocked_resources, failover_history>>
       \/ /\ Len(failover_history) < MaxHistory
          /\ \E t \in ConfigErrors :
                /\ (t = "CloudUserIdentityError" => ~dryrun)
                /\ failover_history' = Append(failover_history, HistoryEntry(Exc(t, FALSE, "config")))
          /\ blocked_resources' = add_to_blocked_resources(blocked_resources, Resources(to_provision.cloud, None, None, None))
          /\ pc' = "failover"
    /\ UNCHANGED <<outcome, raised, retry_until_up, inputs, classified, components, plan, attempt, store, resource_exceptions, optimizer_calls, calls, config_writes>>

\* Mutant: a failing quota check counts as no quota.
need_provision_strict(answer) == answer = "True"

\* need_provision: False only on a definitive answer; an error means True.
need_provision(answer) == answer # "False"

\* Entry of _retry_zones: the quota pre-check.
CheckQuota ==
    /\ pc = "retry_zones"
    /\ \E answer \in {"True", "False", "raised"} :
          /\ quota_check' = answer
          /\ IF need_provision(answer)
             THEN /\ pc' = "yield"
                  /\ raised' = NoException
             ELSE /\ pc' = "raised"
                  /\ raised' = ResourcesUnavailableError(FALSE, "no_quota")
    /\ zone_iter' = 0
    /\ UNCHANGED <<outcome, retry_until_up, inputs, classified, components, plan, blocked_resources, zones, handle, config_dict, provision_record, store, bookkeeping, calls, config_writes>>

\* One resumption of the _yield_zones generator with the filter applied to
\* what it yields; a list whose zones are all blocked is skipped.
YieldZones ==
    /\ pc = "yield"
    /\ LET cands == yield_zones(to_provision, prev_cluster_status, prev_yaml_zones)
       IN  /\ zone_iter < Len(cands)
           /\ zone_iter' = zone_iter + 1
           /\ LET zs == cands[zone_iter + 1]
                  rem == remaining_unblocked_zones(blocked_resources, to_provision, to_provision.region, zs)
              IN  IF zs # ZonesNone /\ rem = <<>>
                  THEN /\ pc' = "yield"
                       /\ zones' = zones
                  ELSE /\ pc' = "write_config"
                       /\ zones' = rem
    /\ UNCHANGED <<outcome, raised, retry_until_up, inputs, classified, components, plan, blocked_resources, quota_check, handle, config_dict, provision_record, store, bookkeeping, calls, config_writes>>

\* The generator is exhausted: an existing cluster's relaunch has failed,
\* or every zone of the region was tried.
ZonesExhausted ==
    /\ pc = "yield"
    /\ zone_iter >= Len(yield_zones(to_provision, prev_cluster_status, prev_yaml_zones))
    /\ LET e == IF prev_cluster_status # None
                THEN relaunch_failure(prev_cluster_status, prev_cluster_ever_up)
                ELSE ResourcesUnavailableError(prev_cluster_ever_up, "zones_exhausted")
       IN  IF e.type = "ResourcesUnavailableError"
           THEN /\ raised' = e
                /\ pc' = "raised"
                /\ outcome' = outcome
           ELSE /\ raised' = e
                /\ pc' = "done"
                /\ outcome' = e.type
    /\ UNCHANGED <<retry_until_up, inputs, classified, components, plan, blocked_resources, attempt, store, bookkeeping, calls, config_writes>>

\* backend_utils.write_cluster_config for the candidate, and the two early
\* returns that follow it (matching config hash, dryrun).
WriteClusterConfig ==
    /\ pc = "write_config"
    /\ config_writes' = config_writes + 1
    /\ \/ /\ pc' = "yield"          \* ResourcesUnavailableError: continue
          /\ UNCHANGED <<raised, blocked_resources, config_dict>>
       \/ /\ \E reason \in {"invalid_credentials", "invalid_configs"} :
                raised' = ResourcesUnavailableError(FALSE, reason)
          /\ blocked_resources' = add_to_blocked_resources(blocked_resources, [to_provision EXCEPT !.region = None, !.zone = None])
          /\ pc' = "raised"
          /\ UNCHANGED config_dict
       \/ /\ skip_if_config_hash_matches   \* and the new config hash matches
          /\ config_dict' = "provisioning_skipped"
          /\ pc' = "post_provision"
          /\ UNCHANGED <<raised, blocked_resources>>
       \/ /\ IF dryrun
             THEN config_dict' = "dryrun" /\ pc' = "post_provision"
             ELSE config_dict' = config_dict /\ pc' = "record_init"
          /\ UNCHANGED <<raised, blocked_resources>>
    /\ UNCHANGED <<outcome, retry_until_up, inputs, classified, components, plan, quota_check, zone_iter, zones, handle, provision_record, store, bookkeeping, calls>>

\* launched_resources of the handle recorded before the launch.
launched_resources_of(res, region, zs) ==
    IF Len(zs) = 1 THEN [res EXCEPT !.region = region, !.zone = zs[1]]
    ELSE [res EXCEPT !.region = region]

\* Mutant: the record is left as it was before the launch.
record_before_launch_skipped(record, h) == record

\* The early write: add_or_update_cluster(cluster_name, handle, ready=False).
record_before_launch(record, h) == add_or_update_cluster(record, h, FALSE)

RecordInit ==
    /\ pc = "record_init"
    /\ handle' = Handle(launched_resources_of(to_provision, to_provision.region, zones))
    /\ cluster_table' = record_before_launch(cluster_table, handle')
    /\ status_log' = Append(status_log, cluster_table'.status)
    /\ pc' = "provision"
    /\ UNCHANGED <<outcome, raised, retry_until_up, inputs, classified, components, plan, blocked_resources, quota_check, zone_iter, zones, config_dict, provision_record, bookkeeping, calls, config_writes>>

\* Failures bulk_provision is made to raise, per cloud.
Capacity == ProvisionerError(<<ErrorEntry("ZONE_RESOURCE_POOL_EXHAUSTED", {})>>)
RegionQuota == ProvisionerError(<<ErrorEntry("QUOTA_EXCEEDED", {})>>)
GlobalQuota == ProvisionerError(<<ErrorEntry("QUOTA_EXCEEDED", {"'GPUS_ALL_REGIONS' exceeded"})>>)
BareQuotaFailure == ProvisionerError(<<ErrorEntry("type.googleapis.com/google.rpc.QuotaFailure", {})>>)
Unparsed == OtherError("Exception", {})
ExpiredCredentials == OtherError("InvalidCloudCredentials", {})

ProvisionErrors(cloud) ==
    IF cloud = "GCP" THEN {Capacity, RegionQuota, BareQuotaFailure}
    ELSE {ExpiredCredentials, Unparsed}

\* provisioner.bulk_provision for the candidate, with its three handlers.
BulkProvision ==
    /\ pc = "provision"
    /\ uses_skypilot_provisioner(to_provision.cloud)
    /\ Len(calls) < MaxCalls
    /\ \/ /\ calls' = Append(calls, Call(to_provision, zones, TRUE, NoError))
          /\ \E z \in (IF zones = ZonesNone THEN {None} ELSE Range(zones)) :
                provision_record' = [to_provision EXCEPT !.zone = z]
          /\ config_dict' = "provision_record"
          /\ pc' = "post_provision"
          /\ UNCHANGED <<outcome, raised, blocked_resources, store>>
       \/ /\ \E t \in {"StopFailoverError", "InconsistentHighAvailabilityError"} :
                /\ calls' = Append(calls, Call(to_provision, zones, FALSE, OtherError(t, {})))
                /\ raised' = Exc(t, FALSE, "bulk_provision")
                /\ outcome' = t
          /\ pc' = "done"
          /\ UNCHANGED <<blocked_resources, config_dict, provision_record, store>>
       \/ /\ \E err \in ProvisionErrors(to_provision.cloud) :
                calls' = Append(calls, Call(to_provision, zones, FALSE, err))
          /\ raised' = Exc("RuntimeError", FALSE, "post_teardown_cleanup")
          /\ outcome' = "RuntimeError"
          /\ pc' = "done"
          /\ UNCHANGED <<blocked_resources, config_dict, provision_record, store>>
       \/ /\ \E err \in ProvisionErrors(to_provision.cloud) :
                /\ calls' = Append(calls, Call(to_provision, zones, FALSE, err))
                /\ blocked_resources' = update_blocklist_on_error_v2(blocked_resources, to_provision, to_provision.region, zones, err)
          /\ cluster_table' = post_teardown_cleanup(cluster_table, ~prev_cluster_ever_up, FALSE)
          /\ status_log' = IF cluster_table' = cluster_table THEN status_log
                           ELSE Append(status_log, cluster_table'.status)
          /\ pc' = "yield"
          /\ UNCHANGED <<outcome, raised, config_dict, provision_record>>
    /\ UNCHANGED <<retry_until_up, inputs, classified, components, plan, quota_check, zone_iter, zones, handle, bookkeeping, config_writes>>

\* Results of `ray up` for which the head node failed.
HeadFailedOutputs == {RayUpOutput(TRUE, FALSE, TRUE), RayUpOutput(TRUE, FALSE, FALSE), RayUpOutput(FALSE, TRUE, FALSE)}

\* cloud.PROVISIONER_VERSION >= RAY_PROVISIONER_SKYPILOT_TERMINATOR
uses_skypilot_terminator(cloud) == cloud \in {"GCP", "AWS"}

\* The state-store effect of CloudVmRayBackend.teardown_no_lock: on the
\* `ray down` path post_teardown_cleanup is called without remove_from_db.
teardown_no_lock(record, cloud, terminate, remove_from_db) ==
    IF record.status = None THEN record
    ELSE IF uses_skypilot_terminator(cloud)
    THEN post_teardown_cleanup(record, terminate, remove_from_db)
    ELSE post_teardown_cleanup(record, terminate, TRUE)

\* The lines of stdout/stderr of `ray up` that the text classifier looks for.
ray_up_markers(out) ==
    (IF out.known_errors THEN {"ERR"} ELSE {})
    \cup (IF out.rsync_not_found THEN {"rsync: command not found"} ELSE {})
    \cup (IF out.head_marker THEN {"Acquiring an up-to-date head node"} ELSE {})

skip_cleanup_ignoring_existing(cluster_exists, no_nodes_launched) == no_nodes_launched

\* skip_cleanup = not cluster_exists and definitely_no_nodes_launched
skip_cleanup(cluster_exists, no_nodes_launched) == ~cluster_exists /\ no_nodes_launched

\* _gang_schedule_ray_up for the candidate and what _retry_zones does with
\* its status: return, or classify, clean up and continue.
GangScheduleRayUp ==
    /\ pc = "provision"
    /\ ~uses_skypilot_provisioner(to_provision.cloud)
    /\ Len(calls) < MaxCalls
    /\ \/ /\ calls' = Append(calls, Call(to_provision, zones, TRUE, NoError))
          /\ config_dict' = "ray"
          /\ pc' = "post_provision"
          /\ UNCHANGED <<outcome, raised, blocked_resources, store>>
       \/ \E status \in {"HEAD_FAILED", "GANG_FAILED"}, teardown_ok \in BOOLEAN :
          \E out \in (IF status = "HEAD_FAILED" THEN HeadFailedOutputs ELSE {NoOutput}) :
             LET v1 == update_blocklist_on_error_v1(blocked_resources, to_provision, to_provision.region, zones, out)
                 skip == skip_cleanup(prev_cluster_status # None, v1.definitely_no_nodes_launched)
             IN  /\ calls' = Append(calls, Call(to_provision, zones, FALSE, OtherError(status, ray_up_markers(out))))
                 /\ blocked_resources' = v1.blocked
                 /\ config_dict' = config_dict
                 /\ IF v1.exc # None
                    THEN /\ raised' = Exc(v1.exc, FALSE, "update_blocklist_on_error")
                         /\ outcome' = v1.exc
                         /\ pc' = "done"
                         /\ UNCHANGED store
                    ELSE IF skip
                    THEN /\ pc' = "yield"
                         /\ UNCHANGED <<outcome, raised, store>>
                    ELSE IF ~teardown_ok
                    THEN /\ raised' = Exc("RuntimeError", FALSE, "teardown_no_lock")
                         /\ outcome' = "RuntimeError"
                         /\ pc' = "done"
                         /\ UNCHANGED store
                    ELSE /\ cluster_table' = teardown_no_lock(cluster_table, to_provision.cloud, ~prev_cluster_ever_up, FALSE)
                         /\ status_log' = Append(status_log, cluster_table'.status)
                         /\ pc' = "yield"
                         /\ UNCHANGED <<outcome, raised>>
    /\ UNCHANGED <<retry_until_up, inputs, classified, components, plan, quota_check, zone_iter, zones, handle, provision_record, bookkeeping, config_writes>>

\* Mutant: the no_failover flag of the error is ignored.
stops_failover_ignoring_flag(e, retries_disabled) == retries_disabled

\* Whether the except clause re-raises instead of going on to failover.
stops_failover(e, retries_disabled) == e.no_failover \/ retries_disabled

\* except ResourcesUnavailableError in provision_with_retries.
HandleResourcesUnavailable ==
    /\ pc = "raised"
    /\ Len(failover_history) < MaxHistory
    /\ failover_history' = Append(failover_history, HistoryEntry(raised))
    /\ pc' = IF stops_failover(raised, launchable_retries_disabled) THEN "except" ELSE "failover"
    /\ UNCHANGED <<outcome, raised, retry_until_up, inputs, classified, components, plan, blocked_resources, attempt, store, resource_exceptions, optimizer_calls, calls, config_writes>>

\* Mutant: a failed shape is not added to the blocklist.
blocklist_after_failure_unchanged(blocked, res, prev_status) == blocked

\* The blocklist after a failed outer iteration: the attempted shape is
\* added only in fallback mode, i.e. when no cluster existed before.
blocklist_after_failure(blocked, res, prev_status) ==
    IF prev_status = None THEN add_to_blocked_resources(blocked, res) ELSE blocked

\* resource_exceptions[to_provision] = failover_history[-1]
set_item(d, k, v) == { p \in d : p[1] # k } \cup { <<k, v>> }

\* Optimizer.optimize with the blocklist: the shapes it may pick, none of
\* them blocked; empty when it raises ResourcesUnavailableError.
optimize(blocked) ==
    { s \in Shapes : ~\E b \in blocked : should_be_blocked_by(s, b) }

\* The rest of one iteration of the retry loop after a failure that allows
\* failover: blocklist or assertions, then the optimizer.
Failover ==
    /\ pc = "failover"
    /\ IF prev_cluster_status # None /\ (prev_cluster_status # "INIT" \/ cluster_table.status # None)
       THEN /\ raised' = Exc("AssertionError", FALSE, "provision_with_retries")
            /\ outcome' = "AssertionError"
            /\ pc' = "done"
            /\ UNCHANGED <<plan, blocked_resources, resource_exceptions, optimizer_calls>>
       ELSE /\ blocked_resources' = blocklist_after_failure(blocked_resources, to_provision, prev_cluster_status)
            /\ resource_exceptions' =
                  IF prev_cluster_status = None
                  THEN set_item(resource_exceptions, to_provision, failover_history[Len(failover_history)])
                  ELSE resource_exceptions
            /\ prev_cluster_status' = None
            /\ prev_handle' = NoHandle
            /\ optimizer_calls' = optimizer_calls + 1
            /\ UNCHANGED <<prev_cluster_ever_up, skip_if_config_hash_matches, outcome>>
            /\ IF optimize(blocked_resources') = {}
               THEN /\ raised' = ResourcesUnavailableError(FALSE, "optimizer")
                    /\ pc' = "except"
                    /\ UNCHANGED to_provision
               ELSE /\ to_provision' \in optimize(blocked_resources')
                    /\ pc' = "outer"
                    /\ UNCHANGED raised
    /\ UNCHANGED <<retry_until_up, inputs, classified, components, attempt, store, failover_history, calls, config_writes>>

(***************************************************************************)
(* CloudVmRayBackend._provision after provision_with_retries.              *)
(***************************************************************************)
\* Mutant: the record is removed whatever the flag says.
record_after_failure_always_removed(record, e) == remove_cluster(record, TRUE)

\* The cluster's entry is removed unless the error forbids failover.
record_after_failure(record, e) ==
    IF ~e.no_failover THEN remove_cluster(record, TRUE) ELSE record

\* except ResourcesUnavailableError in _provision. retry_until_up is an
\* argument of _provision that only this handler reads; it is drawn here.
ProvisionExcept ==
    /\ pc = "except"
    /\ \E r \in BOOLEAN :
          /\ retry_until_up' = r
          /\ IF r
             THEN /\ outcome' = "ExecutionRetryableError"
                  /\ UNCHANGED store
             ELSE /\ outcome' = "ResourcesUnavailableError"
                  /\ cluster_table' = record_after_failure(cluster_table, raised)
                  /\ status_log' = IF cluster_table' = cluster_table THEN status_log
                                   ELSE Append(status_log, cluster_table'.status)
    /\ pc' = "done"
    /\ UNCHANGED <<raised, inputs, classified, components, plan, blocked_resources, attempt, bookkeeping, calls, config_writes>>

\* _provision after a config was returned: the dryrun and skipped returns,
\* the runtime setup and _update_after_cluster_provisioned. On the ray path
\* config_hash is read before it is bound.
PostProvision ==
    /\ pc = "post_provision"
    /\ pc' = "done"
    /\ \/ /\ config_dict \in {"dryrun", "provisioning_skipped"}
          /\ outcome' = IF config_dict = "provisioning_skipped" /\ cluster_table.status = None
                        THEN "AssertionError" ELSE config_dict
          /\ UNCHANGED <<handle, store>>
       \/ /\ config_dict = "provision_record"
          /\ outcome' = "post_provision_runtime_setup"
          /\ UNCHANGED <<handle, store>>
       \/ /\ config_dict = "provision_record"
          /\ handle' = Handle([handle.launched_resources EXCEPT !.region = provision_record.region, !.zone = provision_record.zone])
          /\ cluster_table' = add_or_update_cluster(cluster_table, handle', TRUE)
          /\ status_log' = Append(status_log, cluster_table'.status)
          /\ outcome' = "handle"
       \/ /\ config_dict = "ray"
          /\ outcome' = "UnboundLocalError"
          /\ UNCHANGED <<handle, store>>
    /\ UNCHANGED <<raised, retry_until_up, inputs, classified, components, plan, blocked_resources, quota_check, zone_iter, zones, config_dict, provision_record, bookkeeping, calls, config_writes>>

Next ==
    \/ CheckExistingCluster
    \/ ResourcesMismatch
    \/ CheckLaunchable
    \/ CheckQuota
    \/ YieldZones
    \/ ZonesExhausted
    \/ WriteClusterConfig
    \/ RecordInit
    \/ BulkProvision
    \/ GangScheduleRayUp
    \/ HandleResourcesUnavailable
    \/ Failover
    \/ ProvisionExcept
    \/ PostProvision

Spec == Init /\ [][Next]_vars

\* Every step of the single thread of control is eventually taken.
FairSpec == Spec /\ WF_vars(Next)

(***************************************************************************)
(* The blocklist and the two classifiers on their own: a blocklist and the *)
(* arguments are drawn from the sets below and one operation is applied    *)
(* per step, at most MaxOps in a row.                                      *)
(***************************************************************************)
MaxOps == 2

OtherInstanceType == "n2"

GCP_eu_z(z) == [GCP_eu EXCEPT !.zone = z]

\* Blocklist patterns: cloud-wide, region-wide and zonal ones, with and
\* without an instance type.
Patterns ==
    { Resources(c, None, None, t) : c \in {"GCP", "AWS"}, t \in {None, InstanceType} }
    \cup { Resources("GCP", "eu", z, t) : z \in {None, "z1", "z2"}, t \in {None, InstanceType} }
    \cup { Resources("AWS", "east", z, t) : z \in {None, "x", "y"}, t \in {None, InstanceType} }

InitialBlocklists ==
    { {},
      { GCP_eu_z("z1") },
      { GCP_eu },
      { Resources("GCP", None, None, None) },
      { [AWS_east EXCEPT !.zone = "x"], [AWS_east EXCEPT !.zone = "y"] } }

\* The failed attempts handed to the structured classifier: the launchable
\* resources and the zones tried. The region argument is always the region
\* of the launchable resources (_retry_zones builds it from to_provision).
V2Attempts ==
    { <<GCP_eu, <<"z1">> >>, <<GCP_eu_z("z2"), <<"z2">> >>,
      <<GCP_eu, ZonesNone>>, <<GCP_eu, <<"z1", "z2">> >>,
      <<AWS_east, <<"x", "y", "z">> >>, <<AWS_east, <<"x">> >>,
      <<Resources("Azure", "az", None, InstanceType), ZonesNone>>,
      <<Resources("Lambda", "l1", None, InstanceType), ZonesNone>>,
      <<Resources("SCP", "s1", None, InstanceType), <<"sz">> >>,
      <<Resources("OCI", "o1", None, InstanceType), <<"oz1", "oz2">> >>,
      <<Resources("OCI", "o1", None, InstanceType), ZonesNone>>,
      <<IBM_ib, <<"p">> >> }

GcpZoneCodes ==
    {"ZONE_RESOURCE_POOL_EXHAUSTED", "ZONE_RESOURCE_POOL_EXHAUSTED_WITH_DETAILS", "UNSUPPORTED_OPERATION", "insufficientCapacity", "RESOURCE_NOT_READY", "RESOURCE_OPERATION_RATE_EXCEEDED", "3", "8", "9", "RESOURCE_NOT_FOUND"}

GcpCodes ==
    GcpZoneCodes \cup {"QUOTA_EXCEEDED", "quotaExceeded", "VPC_NOT_FOUND", "SUBNET_NOT_FOUND_FOR_VPC", "type.googleapis.com/google.rpc.QuotaFailure", "IAM_PERMISSION_DENIED", "SOME_OTHER_CODE"}

GcpMessages ==
    { {}, {"'GPUS_ALL_REGIONS' exceeded"}, {"in region"}, {"in zone"},
      {"Requested disk size cannot be smaller than the image size"},
      {"Policy update access denied."},
      {"is not found or access is unauthorized"} }

\* ProvisionerErrors with one entry, any code with any message, and with two
\* entries (two zonal codes, a zonal and a regional one, two unknown ones);
\* and an exception of another class.
GcpErrors ==
    { ProvisionerError(<<ErrorEntry(c, m)>>) : c \in GcpCodes, m \in GcpMessages }
    \cup { ProvisionerError(<<ErrorEntry(c, {}), ErrorEntry(d, {"in region"})>>) : c \in GcpZoneCodes, d \in {"ZONE_RESOURCE_POOL_EXHAUSTED", "8"} }
    \cup { ProvisionerError(<<ErrorEntry("RESOURCE_NOT_FOUND", {}), ErrorEntry("QUOTA_EXCEEDED", {})>>),
           ProvisionerError(<<ErrorEntry("SOME_OTHER_CODE", {}), ErrorEntry("ANOTHER_CODE", {})>>),
           Unparsed }

V2Errors(cloud) ==
    CASE cloud = "GCP" -> GcpErrors
      [] cloud \in {"AWS", "SCP"} -> {ExpiredCredentials, Unparsed}
      [] cloud = "Azure" ->
            { OtherError("Exception", {"(ReadOnlyDisabledSubscription)"}),
              OtherError("Exception", {"ClientAuthenticationError"}), Unparsed }
      [] cloud = "Lambda" ->
            { OtherError("Exception", {"Regions with capacity available:", "l2"}),
              OtherError("Exception", {"Regions with capacity available:", "l1", "l2"}), Unparsed }
      [] OTHER -> {ExpiredCredentials, Unparsed}

V1Attempts ==
    { <<IBM_ib, <<"p">> >>, <<IBM_ib, ZonesNone>>, <<GCP_eu, <<"z1">> >> }

V1Outputs ==
    { RayUpOutput(k, r, h) : k, r, h \in BOOLEAN } \cup {NoOutput}

\* The exception that escapes the structured classifier, if any.
update_blocklist_on_error_v2_exc(res, zs) ==
    IF res.cloud = "GCP" /\ ~gcp_zones_assertion(zs) THEN "AssertionError" ELSE None

ClassifierInit ==
    /\ pc = "classifier"
    /\ blocked_resources \in InitialBlocklists
    /\ classified = NoOperation
    /\ outcome = "none"
    /\ raised = NoException
    /\ dryrun = FALSE
    /\ retry_until_up = FALSE
    /\ launchable_retries_disabled = FALSE
    /\ task_blocked_resources = {}
    /\ cluster_table = NoRecord
    /\ prev_yaml_zones = ZonesNone
    /\ to_provision = Resources(None, None, None, None)
    /\ prev_cluster_status = None
    /\ prev_handle = NoHandle
    /\ prev_cluster_ever_up = FALSE
    /\ skip_if_config_hash_matches = FALSE
    /\ failover_history = <<>>
    /\ resource_exceptions = {}
    /\ quota_check = "unchecked"
    /\ zone_iter = 0
    /\ zones = ZonesNone
    /\ handle = NoHandle
    /\ config_dict = None
    /\ provision_record = Resources(None, None, None, None)
    /\ calls = <<>>
    /\ status_log = <<>>
    /\ optimizer_calls = 0
    /\ config_writes = 0
    /\ ComponentsIdle

engine_vars == <<pc, outcome, raised, inputs, retry_until_up, plan, attempt, store, bookkeeping, calls, config_writes>>

\* _add_to_blocked_resources(blocked_resources, r)
AddToBlocked ==
    /\ pc = "classifier"
    /\ classified.n < MaxOps
    /\ \E r \in Patterns :
          /\ blocked_resources' = add_to_blocked_resources(blocked_resources, r)
          /\ classified' = Operation("add", blocked_resources, r, None, ZonesNone, NoError, NoOutput, None, FALSE, classified.n + 1)
    /\ UNCHANGED <<engine_vars, components>>

\* FailoverCloudErrorHandlerV2.update_blocklist_on_error(...)
ClassifyV2 ==
    /\ pc = "classifier"
    /\ classified.n < MaxOps
    /\ \E a \in V2Attempts :
       \E err \in V2Errors(a[1].cloud) :
          /\ blocked_resources' = update_blocklist_on_error_v2(blocked_resources, a[1], a[1].region, a[2], err)
          /\ classified' = Operation("v2", blocked_resources, a[1], a[1].region, a[2], err, NoOutput, update_blocklist_on_error_v2_exc(a[1], a[2]), FALSE, classified.n + 1)
    /\ UNCHANGED <<engine_vars, components>>

\* FailoverCloudErrorHandlerV1.update_blocklist_on_error(...)
ClassifyV1 ==
    /\ pc = "classifier"
    /\ classified.n < MaxOps
    /\ \E a \in V1Attempts, out \in V1Outputs :
          LET r == update_blocklist_on_error_v1(blocked_resources, a[1], a[1].region, a[2], out)
          IN  /\ blocked_resources' = r.blocked
              /\ classified' = Operation("v1", blocked_resources, a[1], a[1].region, a[2], NoError, out, r.exc, r.definitely_no_nodes_launched, classified.n + 1)
    /\ UNCHANGED <<engine_vars, components>>

ClassifierNext ==
    \/ AddToBlocked
    \/ ClassifyV2
    \/ ClassifyV1

ClassifierSpec == ClassifierInit /\ [][ClassifierNext]_vars

(***************************************************************************)
(* The resource handle on its own: a handle is constructed or unpickled    *)
(* from a state written at some schema version, then its IPs are updated   *)
(* at most MaxUpdates times.                                               *)
(***************************************************************************)
MaxUpdates == 2

\* The engine is not running.
EngineIdle ==
    /\ blocked_resources = {}
    /\ classified = NoOperation
    /\ outcome = "none"
    /\ raised = NoException
    /\ dryrun = FALSE
    /\ retry_until_up = FALSE
    /\ launchable_retries_disabled = FALSE
    /\ task_blocked_resources = {}
    /\ cluster_table = NoRecord
    /\ prev_yaml_zones = ZonesNone
    /\ to_provision = Resources(None, None, None, None)
    /\ prev_cluster_status = None
    /\ prev_handle = NoHandle
    /\ prev_cluster_ever_up = FALSE
    /\ skip_if_config_hash_matches = FALSE
    /\ failover_history = <<>>
    /\ resource_exceptions = {}
    /\ quota_check = "unchecked"
    /\ zone_iter = 0
    /\ zones = ZonesNone
    /\ handle = NoHandle
    /\ config_dict = None
    /\ provision_record = Resources(None, None, None, None)
    /\ calls = <<>>
    /\ status_log = <<>>
    /\ optimizer_calls = 0
    /\ config_writes = 0

engine_all == <<engine_vars, blocked_resources, classified>>

\* Nodes by the last octet of their external IP; the internal IP is 100 more.
ExternalIps == {2, 9, 10}
Pair(e) == <<100 + e, e>>

\* What a provider can report: up to three nodes in any order, head first.
PairLists ==
    { <<>> }
    \cup { <<Pair(a)>> : a \in ExternalIps }
    \cup { l \in { <<Pair(a), Pair(b)>> : a \in ExternalIps, b \in ExternalIps } : l[1] # l[2] }
    \cup { l \in { <<Pair(a), Pair(b), Pair(c)>> : a \in ExternalIps, b \in ExternalIps, c \in ExternalIps } :
            l[1] # l[2] /\ l[1] # l[3] /\ l[2] # l[3] }

TwoNodes == <<Pair(2), Pair(9)>>

K8s_ctx == Resources("Kubernetes", "old-ctx", None, InstanceType)
HandleResources == { [GCP_eu EXCEPT !.zone = "z1"], K8s_ctx, [IBM_ib EXCEPT !.zone = "p"] }

\* The keys of a state pickled by a handle of schema version n, read off the
\* migration steps of __setstate__; -1 is a state without _version.
written_keys(n, with_region) ==
    {"cluster_name", "launched_nodes", "launched_resources"}
    \cup (IF n >= 0 THEN {"_version"} ELSE {})
    \cup (IF n < 0 /\ with_region THEN {"cluster_region"} ELSE {})
    \cup (IF n < 2 THEN {"cluster_yaml"} ELSE {"_cluster_yaml"})
    \cup (IF n < 3 THEN {"head_ip"} ELSE {"stable_internal_external_ips"})
    \cup (IF n >= 4 THEN {"stable_ssh_ports"} ELSE {})
    \cup (IF n >= 5 THEN {"docker_user"} ELSE {})
    \cup (IF n >= 6 THEN {"cluster_name_on_cloud"} ELSE {})
    \cup (IF n >= 8 THEN {"cached_cluster_info"} ELSE {})

\* The states a handle of schema version n can have pickled.
WrittenStates(n) ==
    { HandleDict(written_keys(n, region # None),
                 IF n >= 0 THEN n ELSE 0,
                 "c",
                 IF n >= 6 THEN "c-1a2b" ELSE None,
                 IF n < 2 THEN yaml ELSE None,
                 IF n < 2 THEN None ELSE yaml,
                 IF n < 3 THEN head_ip ELSE <<>>,
                 IF n < 0 THEN region ELSE None,
                 IF n >= 3 THEN ips ELSE <<>>,
                 IF n >= 4 THEN ports ELSE <<>>,
                 IF n >= 5 THEN docker_user ELSE None,
                 IF n >= 8 THEN info ELSE <<>>,
                 2,
                 res) :
        yaml \in (IF n = _VERSION THEN {TildePath, None} ELSE {TildePath}),
        head_ip \in (IF n < 3 THEN {<<>>, Some(2)} ELSE {<<>>}),
        region \in (IF n < 0 THEN {None, "eu"} ELSE {None}),
        ips \in (IF n >= 3 THEN {<<>>, Some(TwoNodes)} ELSE {<<>>}),
        ports \in (IF n >= 4 THEN {<<>>, Some(<<22, 22>>)} ELSE {<<>>}),
        docker_user \in (IF n >= 5 THEN {None, "ubuntu"} ELSE {None}),
        info \in (IF n >= 8 THEN {<<>>, Some(ClusterInfo("gcp", TwoNodes))} ELSE {<<>>}),
        res \in HandleResources }

Versions == (-1)..(_VERSION)

\* The environments a state is unpickled in.
LoadEnvs ==
    { Env(node_ips, FALSE, tpu, file_exists, yaml_str, cluster_info) :
        node_ips \in {<<>>, Some(<<Pair(9), Pair(2)>>)},
        tpu \in BOOLEAN, file_exists \in BOOLEAN, yaml_str \in BOOLEAN,
        cluster_info \in {<<>>, Some(ClusterInfo("gcp", TwoNodes))} }

\* The arguments and environments of update_cluster_ips: a cluster_info of
\* the new provisioner, or the IP queries of the legacy path.
IpUpdates ==
    { <<Some(ClusterInfo(name, l)), NoEnv>> : name \in {"gcp", "kubernetes"}, l \in PairLists }
    \cup { << <<>>, Env(node_ips, use_internal_ips, FALSE, TRUE, TRUE, <<>>) >> :
            node_ips \in {<<>>} \cup { Some(l) : l \in PairLists \ {<<>>} },
            use_internal_ips \in BOOLEAN }

HandleInit ==
    /\ pc = "handle"
    /\ EngineIdle
    /\ HandleIdle
    /\ LockIdle
    /\ LoopIdle
    /\ CleanupIdle
    /\ LambdaIdle
    /\ RequestsIdle

\* handle = CloudVmRayResourceHandle(...)
Construct ==
    /\ pc = "handle"
    /\ applied.op = "none"
    /\ \E yaml \in {TildePath, HomePath, None}, res \in {[GCP_eu EXCEPT !.zone = "z1"], K8s_ctx}, ips \in {<<>>, Some(TwoNodes)} :
          /\ self_handle' = CloudVmRayResourceHandle("c", "c-1a2b", yaml, 2, res, ips, <<>>, <<>>)
          /\ applied' = Applied("init", [NoObject EXCEPT !._cluster_yaml = yaml], NoObject, <<>>, NoEnv, None, 0)
    /\ UNCHANGED <<engine_all, lock_vars, loop_vars, cleanup_vars, lambda_vars, request_vars>>

\* pickle.loads of a stored handle: __setstate__ on a fresh object.
SetState ==
    /\ pc = "handle"
    /\ applied.op = "none"
    /\ \E n \in Versions :
       \E state \in WrittenStates(n), env \in LoadEnvs :
          LET r == setstate(state, env)
          IN  /\ self_handle' = IF r.exc = None THEN r.self ELSE NoObject
              /\ applied' = Applied("setstate", state, NoObject, <<>>, env, r.exc, 0)
    /\ UNCHANGED <<engine_all, lock_vars, loop_vars, cleanup_vars, lambda_vars, request_vars>>

\* handle.update_cluster_ips(...) on a constructed handle
UpdateClusterIps ==
    /\ pc = "handle"
    /\ applied.op \in {"init", "update_cluster_ips"}
    /\ applied.n < MaxUpdates
    /\ \E u \in IpUpdates :
          LET r == update_cluster_ips(self_handle, u[1], u[2])
          IN  /\ IF IsNone(u[1]) THEN TRUE
                 ELSE u[1][1].provider_name = "kubernetes" <=> self_handle.launched_resources.cloud = "Kubernetes"
              /\ self_handle' = r.self
              /\ applied' = Applied("update_cluster_ips", NoObject, self_handle, u[1], u[2], r.exc, applied.n + 1)
    /\ UNCHANGED <<engine_all, lock_vars, loop_vars, cleanup_vars, lambda_vars, request_vars>>

HandleNext ==
    \/ Construct
    \/ SetState
    \/ UpdateClusterIps

HandleSpec == HandleInit /\ [][HandleNext]_vars

(***************************************************************************)
(* The lock of one cluster name, and the _provision and _teardown calls    *)
(* that contend for it.                                                    *)
(***************************************************************************)
Provisions == {"provision1", "provision2"}

\* NamedLock.acquire: the lock is given when nobody holds it.
acquire(holder, p) == IF holder = None THEN p ELSE holder

\* Leaving the scope of the lock gives it back if it is still held.
release(holder, p) == IF holder = p THEN None ELSE holder

\* NamedLock.force_unlock: whoever holds the lock loses it.
force_unlock(holder) == None

\* Inside `with timeline.DistributedLockEvent(lock_id)` of _provision and
\* inside `with lock` of _teardown.
InSection(p) ==
    IF p = "teardown"
    THEN proc_pc[p] = "teardown_no_lock"
    ELSE proc_pc[p] \in {"locked", "post_process"}

\* kill_requests marks the requests CANCELLED and signals their processes;
\* `killed` are the requests that end by it.
kill_requests(pcs, killed) == [p \in Procs |-> IF p \in killed THEN "killed" ELSE pcs[p]]

LockInit ==
    /\ pc = "lock"
    /\ EngineIdle
    /\ HandleIdle
    /\ LockIdle
    /\ LoopIdle
    /\ CleanupIdle
    /\ LambdaIdle
    /\ RequestsIdle

\* _provision enters `with timeline.DistributedLockEvent(lock_id)`.
ProvisionAcquire(p) ==
    /\ proc_pc[p] = "idle"
    /\ lock_holder = None
    /\ lock_holder' = acquire(lock_holder, p)
    /\ proc_pc' = [proc_pc EXCEPT ![p] = "locked"]
    /\ UNCHANGED <<n_attempts, lock_timeouts, teardown_terminate>>
    /\ UNCHANGED <<engine_all, handle_vars, loop_vars, cleanup_vars, lambda_vars, request_vars>>

\* The body of the `with`, up to _update_after_cluster_provisioned; an
\* exception leaves the `with`.
ProvisionBody(p) ==
    /\ proc_pc[p] = "locked"
    /\ \E failed \in BOOLEAN :
         IF failed
         THEN /\ proc_pc' = [proc_pc EXCEPT ![p] = "done"]
              /\ lock_holder' = release(lock_holder, p)
         ELSE /\ proc_pc' = [proc_pc EXCEPT ![p] = "post_process"]
              /\ UNCHANGED lock_holder
    /\ UNCHANGED <<n_attempts, lock_timeouts, teardown_terminate>>
    /\ UNCHANGED <<engine_all, handle_vars, loop_vars, cleanup_vars, lambda_vars, request_vars>>

\* _update_after_cluster_provisioned ends with force_unlock.
ProvisionForceUnlock(p) ==
    /\ proc_pc[p] = "post_process"
    /\ lock_holder' = force_unlock(lock_holder)
    /\ proc_pc' = [proc_pc EXCEPT ![p] = "unlocked"]
    /\ UNCHANGED <<n_attempts, lock_timeouts, teardown_terminate>>
    /\ UNCHANGED <<engine_all, handle_vars, loop_vars, cleanup_vars, lambda_vars, request_vars>>

\* `return handle, False` leaves the `with`.
ProvisionReturn(p) ==
    /\ proc_pc[p] = "unlocked"
    /\ lock_holder' = release(lock_holder, p)
    /\ proc_pc' = [proc_pc EXCEPT ![p] = "done"]
    /\ UNCHANGED <<n_attempts, lock_timeouts, teardown_terminate>>
    /\ UNCHANGED <<engine_all, handle_vars, loop_vars, cleanup_vars, lambda_vars, request_vars>>

\* _teardown up to `n_attempts = 2`.
TeardownStart ==
    /\ proc_pc["teardown"] = "idle"
    /\ \E t \in BOOLEAN : teardown_terminate' = t
    /\ n_attempts' = 2
    /\ proc_pc' = [proc_pc EXCEPT !["teardown"] = "while"]
    /\ UNCHANGED <<lock_holder, lock_timeouts>>
    /\ UNCHANGED <<engine_all, handle_vars, loop_vars, cleanup_vars, lambda_vars, request_vars>>

\* `n_attempts -= 1; lock.force_unlock()`
TeardownForceUnlock ==
    /\ proc_pc["teardown"] = "while"
    /\ n_attempts' = n_attempts - 1
    /\ lock_holder' = force_unlock(lock_holder)
    /\ proc_pc' = [proc_pc EXCEPT !["teardown"] = "kill"]
    /\ UNCHANGED <<lock_timeouts, teardown_terminate>>
    /\ UNCHANGED <<engine_all, handle_vars, loop_vars, cleanup_vars, lambda_vars, request_vars>>

\* kill_cluster_requests in its try/except, over the requests of the cluster
\* that are PENDING or RUNNING; a failure to kill is logged and ignored.
TeardownKill ==
    /\ proc_pc["teardown"] = "kill"
    /\ \E killed \in SUBSET {p \in Provisions : proc_pc[p] \in {"idle", "locked", "post_process", "unlocked"}} :
         proc_pc' = [kill_requests(proc_pc, killed) EXCEPT !["teardown"] = "with"]
    /\ UNCHANGED <<lock_holder, n_attempts, lock_timeouts, teardown_terminate>>
    /\ UNCHANGED <<engine_all, handle_vars, loop_vars, cleanup_vars, lambda_vars, request_vars>>

\* `with lock:` either enters teardown_no_lock or raises LockTimeout, and
\* then `if n_attempts <= 0: raise RuntimeError`.
TeardownWithLock ==
    /\ proc_pc["teardown"] = "with"
    /\ IF lock_holder = None
       THEN /\ lock_holder' = acquire(lock_holder, "teardown")
            /\ proc_pc' = [proc_pc EXCEPT !["teardown"] = "teardown_no_lock"]
            /\ UNCHANGED lock_timeouts
       ELSE /\ lock_timeouts' = lock_timeouts + 1
            /\ proc_pc' = [proc_pc EXCEPT !["teardown"] = IF n_attempts <= 0 THEN "RuntimeError" ELSE "while"]
            /\ UNCHANGED lock_holder
    /\ UNCHANGED <<n_attempts, teardown_terminate>>
    /\ UNCHANGED <<engine_all, handle_vars, loop_vars, cleanup_vars, lambda_vars, request_vars>>

\* teardown_no_lock returns, the `with` is left, and
\* `if terminate: lock.force_unlock()` before the break.
TeardownBreak ==
    /\ proc_pc["teardown"] = "teardown_no_lock"
    /\ lock_holder' = IF teardown_terminate THEN force_unlock(release(lock_holder, "teardown")) ELSE release(lock_holder, "teardown")
    /\ proc_pc' = [proc_pc EXCEPT !["teardown"] = "done"]
    /\ UNCHANGED <<n_attempts, lock_timeouts, teardown_terminate>>
    /\ UNCHANGED <<engine_all, handle_vars, loop_vars, cleanup_vars, lambda_vars, request_vars>>

LockNext ==
    \/ \E p \in Provisions : ProvisionAcquire(p)
    \/ \E p \in Provisions : ProvisionBody(p)
    \/ \E p \in Provisions : ProvisionForceUnlock(p)
    \/ \E p \in Provisions : ProvisionReturn(p)
    \/ TeardownStart
    \/ TeardownForceUnlock
    \/ TeardownKill
    \/ TeardownWithLock
    \/ TeardownBreak

LockSpec == LockInit /\ [][LockNext]_vars

(***************************************************************************)
(* The retry loops of _gang_schedule_ray_up and of _get_zone.              *)
(***************************************************************************)
_MAX_RAY_UP_RETRY == 5
_MAX_GET_ZONE_RETRY == 3

\* The most runs of the zone query that one runner is followed for.
MaxZoneQueries == 6

\* What need_ray_up looks for in the output of `ray up`.
Stdouts == SUBSET {"Processing file mounts", "Running setup commands"}
Stderrs == SUBSET {"Your API requests are being rate limited.", "rsync: command not found", "Failed to setup head node.", "ConnectionResetError: [Errno 54] Connection reset by peer"}
RayUpReturnValues == [returncode : {0, 1}, stdout : Stdouts, stderr : Stderrs]

need_ray_up(value, cloud) ==
    IF IsNone(value) THEN TRUE
    ELSE IF value[1].returncode = 0 THEN FALSE
    ELSE IF cloud = "Lambda" /\ "Your API requests are being rate limited." \in value[1].stderr THEN TRUE
    ELSE IF "rsync: command not found" \in value[1].stderr THEN FALSE
    ELSE IF /\ "Processing file mounts" \in value[1].stdout
            /\ "Running setup commands" \notin value[1].stdout
            /\ "Failed to setup head node." \in value[1].stderr
         THEN TRUE
    ELSE IF "ConnectionResetError: [Errno 54] Connection reset by peer" \in value[1].stderr THEN TRUE
    ELSE FALSE

\* The condition of the `while` of _gang_schedule_ray_up.
ray_up_again == retry_cnt < _MAX_RAY_UP_RETRY /\ need_ray_up(ray_up_return_value, to_provision_cloud)

LoopInit ==
    /\ pc = "loops"
    /\ EngineIdle
    /\ HandleIdle
    /\ LockIdle
    /\ LoopIdle
    /\ CleanupIdle
    /\ LambdaIdle
    /\ RequestsIdle

\* `retry_cnt = 0; ray_up_return_value = None`
RayUpStart ==
    /\ ray_up_pc = "idle"
    /\ \E cloud \in {"Lambda", "GCP"} : to_provision_cloud' = cloud
    /\ retry_cnt' = 0
    /\ ray_up_return_value' = <<>>
    /\ ray_up_pc' = "while"
    /\ UNCHANGED <<get_zone_pc, ray_up_calls, retry_count, returncode, get_zone_calls>>
    /\ UNCHANGED <<engine_all, handle_vars, lock_vars, cleanup_vars, lambda_vars, request_vars>>

\* One pass of the `while`: `retry_cnt += 1`, the sleep, and ray_up().
RayUp ==
    /\ ray_up_pc = "while"
    /\ ray_up_again
    /\ retry_cnt' = retry_cnt + 1
    /\ ray_up_calls' = ray_up_calls + 1
    /\ \E value \in RayUpReturnValues : ray_up_return_value' = Some(value)
    /\ UNCHANGED <<ray_up_pc, get_zone_pc, to_provision_cloud, retry_count, returncode, get_zone_calls>>
    /\ UNCHANGED <<engine_all, handle_vars, lock_vars, cleanup_vars, lambda_vars, request_vars>>

\* After the `while`: HEAD_FAILED is returned when returncode != 0.
RayUpReturn ==
    /\ ray_up_pc = "while"
    /\ ~ray_up_again
    /\ ray_up_pc' = IF ray_up_return_value[1].returncode # 0 THEN "HEAD_FAILED" ELSE "HEAD_UP"
    /\ UNCHANGED <<get_zone_pc, retry_cnt, ray_up_return_value, to_provision_cloud, ray_up_calls, retry_count, returncode, get_zone_calls>>
    /\ UNCHANGED <<engine_all, handle_vars, lock_vars, cleanup_vars, lambda_vars, request_vars>>

\* _get_zone(runner) up to its `while True`, on a cluster that came up.
GetZoneStart(r) ==
    /\ ray_up_pc = "HEAD_UP"
    /\ get_zone_pc[r] = "idle"
    /\ get_zone_pc' = [get_zone_pc EXCEPT ![r] = "while"]
    /\ retry_count' = [retry_count EXCEPT ![r] = 0]
    /\ UNCHANGED <<ray_up_pc, retry_cnt, ray_up_return_value, to_provision_cloud, ray_up_calls, returncode, get_zone_calls>>
    /\ UNCHANGED <<engine_all, handle_vars, lock_vars, cleanup_vars, lambda_vars, request_vars>>

\* One pass of the `while True`: the query runs; returncode 0 breaks out to
\* handle_returncode and the return, anything else counts a retry and goes
\* round again, by `continue` or by reaching the end of the body.
GetZoneRun(r) ==
    /\ get_zone_pc[r] = "while"
    /\ get_zone_calls[r] < MaxZoneQueries
    /\ get_zone_calls' = [get_zone_calls EXCEPT ![r] = @ + 1]
    /\ \E rc \in {0, 1, 255} :
         /\ returncode' = [returncode EXCEPT ![r] = rc]
         /\ IF rc = 0
            THEN /\ get_zone_pc' = [get_zone_pc EXCEPT ![r] = "returned"]
                 /\ UNCHANGED retry_count
            ELSE /\ retry_count' = [retry_count EXCEPT ![r] = @ + 1]
                 /\ UNCHANGED get_zone_pc
    /\ UNCHANGED <<ray_up_pc, retry_cnt, ray_up_return_value, to_provision_cloud, ray_up_calls>>
    /\ UNCHANGED <<engine_all, handle_vars, lock_vars, cleanup_vars, lambda_vars, request_vars>>

LoopNext ==
    \/ RayUpStart
    \/ RayUp
    \/ RayUpReturn
    \/ \E r \in Runners : GetZoneStart(r)
    \/ \E r \in Runners : GetZoneRun(r)

LoopSpec == LoopInit /\ [][LoopNext]_vars

(***************************************************************************)
(* CloudVmRayBackend.post_teardown_cleanup.                                *)
(***************************************************************************)
_TEARDOWN_WAIT_MAX_ATTEMPTS == 10

\* What query_instances can say of the two nodes of the cluster.
NodeStatusDicts == [1..2 -> {None, "STOPPED", "UP", "INIT"}]

\* What cleanup_ports, cleanup_custom_multi_network and remove_cluster_config
\* can do.
PortsOutcomes == {"done", "NotSupportedError", "PortDoesNotExistError", "Exception"}
NetworkOutcomes == {"done", "NotSupportedError", "Exception"}

\* Mutant: no node status is unexpected.
is_unexpected_never(node_status) == FALSE

\* `node_status not in [None, ClusterStatus.STOPPED]`
is_unexpected(node_status) == node_status \notin {None, "STOPPED"}

\* unexpected_node_state is not None
unexpected_node_state(node_status_dict) ==
    \E i \in DOMAIN node_status_dict : is_unexpected(node_status_dict[i])

\* The handle's cluster_yaml after the `if terminate:` part, or "raise" when
\* an exception leaves it: the yaml is dropped by remove_cluster_config when
\* the ports and the custom networks were both cleaned up, and a failure is
\* skipped only with purge.
after_terminate_part(cluster_yaml, terminate, purge, ports, network, config) ==
    IF ~terminate \/ cluster_yaml = None THEN cluster_yaml
    ELSE IF ports = "Exception" /\ ~purge THEN "raise"
    ELSE IF network = "Exception" /\ ~purge THEN "raise"
    ELSE IF ports # "done" \/ network # "done" THEN cluster_yaml
    ELSE IF config # "done" /\ ~purge THEN "raise"
    ELSE None

CleanupInit ==
    /\ pc = "cleanup"
    /\ EngineIdle
    /\ HandleIdle
    /\ LockIdle
    /\ LoopIdle
    /\ CleanupIdle
    /\ LambdaIdle
    /\ RequestsIdle

\* post_teardown_cleanup up to _detect_abnormal_non_terminated_nodes.
PostTeardownCleanup ==
    /\ cleanup.pc = "idle"
    /\ \E terminate \in BOOLEAN, purge \in BOOLEAN, remove_from_db \in BOOLEAN, cluster_yaml \in {None, "yaml"}, status \in {"INIT", "UP"}, ports \in PortsOutcomes, network \in NetworkOutcomes, config \in {"done", "Exception"} :
         LET yaml == after_terminate_part(cluster_yaml, terminate, purge, ports, network, config)
         IN  cleanup' = [cleanup EXCEPT
                 !.pc = IF yaml = "raise" THEN "Exception" ELSE IF yaml = None THEN "update_state" ELSE "detect",
                 !.terminate = terminate, !.purge = purge, !.remove_from_db = remove_from_db,
                 !.cluster_yaml = IF yaml = "raise" THEN cluster_yaml ELSE yaml,
                 !.prev_status = status,
                 !.record = [status |-> status, handle |-> Handle(GCP_eu), cluster_ever_up |-> FALSE]]
    /\ UNCHANGED <<engine_all, handle_vars, lock_vars, loop_vars, lambda_vars, request_vars>>

\* One pass of the `while True` of _detect_abnormal_non_terminated_nodes,
\* with the except clause around its call.
DetectAbnormalNonTerminatedNodes ==
    /\ cleanup.pc = "detect"
    /\ \/ \E node_status_dict \in NodeStatusDicts :
            cleanup' = [cleanup EXCEPT
                !.queries = @ + 1,
                !.answered = "statuses",
                !.node_status_dict = node_status_dict,
                !.attempts = IF unexpected_node_state(node_status_dict) THEN @ + 1 ELSE @,
                !.pc = IF ~unexpected_node_state(node_status_dict) THEN "update_state"
                       ELSE IF cleanup.attempts + 1 < _TEARDOWN_WAIT_MAX_ATTEMPTS THEN "detect"
                       ELSE "RuntimeError"]
       \/ cleanup' = [cleanup EXCEPT
                !.queries = @ + 1,
                !.answered = "ClusterStatusFetchingError",
                !.pc = IF cleanup.purge THEN "update_state" ELSE "ClusterStatusFetchingError"]
    /\ UNCHANGED <<engine_all, handle_vars, lock_vars, loop_vars, lambda_vars, request_vars>>

\* `if not terminate or remove_from_db: global_user_state.remove_cluster(...)`
UpdateState ==
    /\ cleanup.pc = "update_state"
    /\ cleanup' = [cleanup EXCEPT
            !.record = post_teardown_cleanup(cleanup.record, cleanup.terminate, cleanup.remove_from_db),
            !.pc = "returned"]
    /\ UNCHANGED <<engine_all, handle_vars, lock_vars, loop_vars, lambda_vars, request_vars>>

CleanupNext ==
    \/ PostTeardownCleanup
    \/ DetectAbnormalNonTerminatedNodes
    \/ UpdateState

CleanupSpec == CleanupInit /\ [][CleanupNext]_vars

(***************************************************************************)
(* lambda_utils._try_request_with_backoff and raise_lambda_error.          *)
(***************************************************************************)
MAX_ATTEMPTS == 6

\* The responses of the Lambda API: the status code and whether the body
\* parses as JSON.
Responses == [status_code : {200, 429, 400, 500}, json : BOOLEAN]

\* raise_lambda_error: the message of the LambdaCloudError it raises, None
\* when it returns.
raise_lambda_error(response) ==
    IF response.status_code = 200 THEN None
    ELSE IF response.status_code = 429 THEN "Your API requests are being rate limited."
    ELSE IF ~response.json THEN "Response cannot be parsed into JSON."
    ELSE "code: message"

\* Mutant: a rate-limited response is always retried.
rate_limited_retry_always(response, i) == response.status_code = 429

\* `response.status_code == 429 and i != MAX_ATTEMPTS - 1`
rate_limited_retry(response, i) == response.status_code = 429 /\ i # MAX_ATTEMPTS - 1

\* The call after a pass of the `for` that neither returned nor raised.
next_pass(call) ==
    IF call.i + 1 < MAX_ATTEMPTS
    THEN [call EXCEPT !.i = @ + 1]
    ELSE [call EXCEPT !.pc = "returned None"]

LambdaInit ==
    /\ pc = "lambda"
    /\ EngineIdle
    /\ HandleIdle
    /\ LockIdle
    /\ LoopIdle
    /\ CleanupIdle
    /\ LambdaIdle
    /\ RequestsIdle

\* _try_request_with_backoff up to its `for`.
TryRequestWithBackoff ==
    /\ lambda_call.pc = "idle"
    /\ \E method \in {"get", "post", "put", "delete"} :
         lambda_call' = [lambda_call EXCEPT !.pc = "for", !.method = method]
    /\ UNCHANGED <<engine_all, handle_vars, lock_vars, loop_vars, cleanup_vars, request_vars>>

\* One pass of `for i in range(MAX_ATTEMPTS)`.
SendRequest ==
    /\ lambda_call.pc = "for"
    /\ IF lambda_call.method \notin {"get", "post", "put"}
       THEN lambda_call' = [lambda_call EXCEPT !.pc = "ValueError"]
       ELSE \E response \in Responses :
              LET sent == [lambda_call EXCEPT !.responses = Append(@, response)]
              IN  lambda_call' =
                    IF rate_limited_retry(response, lambda_call.i) THEN next_pass(sent)
                    ELSE IF response.status_code = 200 THEN [sent EXCEPT !.pc = "returned response"]
                    ELSE IF raise_lambda_error(response) # None
                    THEN [sent EXCEPT !.pc = "LambdaCloudError", !.error = raise_lambda_error(response)]
                    ELSE next_pass(sent)
    /\ UNCHANGED <<engine_all, handle_vars, lock_vars, loop_vars, cleanup_vars, request_vars>>

LambdaNext ==
    \/ TryRequestWithBackoff
    \/ SendRequest

LambdaSpec == LambdaInit /\ [][LambdaNext]_vars

(***************************************************************************)
(* server/requests/requests.py: the request table, kill_requests, the      *)
(* set_request_* updates of a worker and the retention cleanup.            *)
(*                                                                         *)
(* A request id is a sequence of characters.  A row of the table is a      *)
(* record [request_id, status, finished_at, pid]; finished_at and pid are  *)
(* <<>> for NULL.  The table is the set of its rows, request_id being the  *)
(* primary key.  log_files holds the request ids whose log file exists.    *)
(***************************************************************************)
MaxNow == 2

\* The members of RequestStatus in the order of their declaration.
RequestStatus == <<"PENDING", "RUNNING", "SUCCEEDED", "FAILED", "CANCELLED">>

StatusIndex(status) == CHOOSE k \in 1..Len(RequestStatus) : RequestStatus[k] = status

\* RequestStatus.__gt__
status_gt(a, b) == StatusIndex(a) > StatusIndex(b)

finished_status == {"SUCCEEDED", "FAILED", "CANCELLED"}

\* The ids of the requests in the table, the ids of the internal daemons
\* among them, and the ids a caller may hand to kill_requests: full ids,
\* an abbreviation and an id of no request.
RequestIds == {<<"a", "b">>, <<"a", "c">>, <<"d">>}
InternalDaemonIds == {<<"d">>}
GivenIds == RequestIds \cup {<<"a">>, <<"z">>}

\* The rows a request can be stored as before any of the calls below: an
\* unfinished request has no finished_at, a pending one no pid.
InitialRows(request_id) ==
    {[request_id |-> request_id, status |-> "PENDING", finished_at |-> <<>>, pid |-> <<>>],
     [request_id |-> request_id, status |-> "RUNNING", finished_at |-> <<>>, pid |-> <<1>>]}
    \cup {[request_id |-> request_id, status |-> st, finished_at |-> <<0>>, pid |-> <<1>>] : st \in finished_status}

InitialTables ==
    {t \in SUBSET (UNION {InitialRows(id) : id \in RequestIds}) :
        \A r1 \in t, r2 \in t : r1.request_id = r2.request_id => r1 = r2}

IsPrefix(p, q) == Len(p) <= Len(q) /\ SubSeq(q, 1, Len(p)) = p

\* _get_request_no_lock: `WHERE request_id LIKE request_id%` and fetchone()
\* without ORDER BY give any one row whose id starts with the given id, and
\* None (<<>>) when there is none.
get_request_no_lock(table, request_id) ==
    LET rows == {row \in table : IsPrefix(request_id, row.request_id)}
    IN  IF rows = {} THEN {<<>>} ELSE {<<row>> : row \in rows}

\* _add_or_update_request_no_lock: INSERT OR REPLACE by primary key.
add_or_update_request_no_lock(table, request) ==
    {row \in table : row.request_id # request.request_id} \cup {request}

\* The exit of update_request's `with` that ended normally.
update_request_exit(table, request) ==
    IF request = <<>> THEN table ELSE add_or_update_request_no_lock(table, request[1])

\* Mutant: kill_requests cancels whatever record it found.
skipped_never(request_record) == FALSE

\* The `continue`s of kill_requests for a record that was found.
skipped(request_record) ==
    \/ request_record.request_id \in InternalDaemonIds
    \/ status_gt(request_record.status, "RUNNING")

\* Mutant: every request is selected for cleanup.
finished_before_any(row, statuses, cutoff) == TRUE

\* get_request_tasks's filters `status IN (...)` and `finished_at < ?`; a
\* NULL finished_at satisfies no comparison.
finished_before(row, statuses, cutoff) ==
    /\ row.status \in statuses
    /\ row.finished_at # <<>>
    /\ row.finished_at[1] < cutoff

RequestsInit ==
    /\ pc = "requests"
    /\ EngineIdle
    /\ HandleIdle
    /\ LockIdle
    /\ LoopIdle
    /\ CleanupIdle
    /\ LambdaIdle
    /\ request_table \in InitialTables
    /\ log_files = {row.request_id : row \in request_table}
    /\ killer = NoKiller
    /\ worker = NoWorker
    /\ cleaner = NoCleaner
    /\ now = 0

\* time passes.
Tick ==
    /\ now < MaxNow
    /\ now' = now + 1
    /\ UNCHANGED <<request_table, log_files, killer, worker, cleaner>>
    /\ UNCHANGED <<engine_all, handle_vars, lock_vars, loop_vars, cleanup_vars, lambda_vars>>

\* kill_requests(request_ids) up to its `for`.
KillRequests ==
    /\ killer.pc = "idle"
    /\ \E ids \in {<<>>} \cup {<<a>> : a \in GivenIds} \cup {<<a, b>> : a \in GivenIds, b \in GivenIds} :
         killer' = [killer EXCEPT !.pc = IF ids = <<>> THEN "returned" ELSE "for", !.request_ids = ids]
    /\ UNCHANGED <<request_table, log_files, worker, cleaner, now>>
    /\ UNCHANGED <<engine_all, handle_vars, lock_vars, loop_vars, cleanup_vars, lambda_vars>>

\* The entry of `with update_request(request_id) as request_record`.
KillRead ==
    /\ killer.pc = "for"
    /\ \E request \in get_request_no_lock(request_table, killer.request_ids[killer.i]) :
         killer' = [killer EXCEPT !.pc = "with", !.request_record = request]
    /\ UNCHANGED <<request_table, log_files, worker, cleaner, now>>
    /\ UNCHANGED <<engine_all, handle_vars, lock_vars, loop_vars, cleanup_vars, lambda_vars>>

\* The killer after the pass of the `for` over request_ids[i].
next_request(k) ==
    [k EXCEPT !.pc = IF k.i < Len(k.request_ids) THEN "for" ELSE "returned",
              !.i = IF k.i < Len(k.request_ids) THEN @ + 1 ELSE @,
              !.request_record = <<>>]

\* The body of the `with` and its exit.  os.kill raises when the process is
\* gone, and the exception leaves the `with` without the write.
KillWrite ==
    /\ killer.pc = "with"
    /\ IF killer.request_record = <<>>
       THEN /\ killer' = next_request(killer)
            /\ UNCHANGED request_table
       ELSE IF skipped(killer.request_record[1])
       THEN /\ killer' = next_request(killer)
            /\ request_table' = update_request_exit(request_table, killer.request_record)
       ELSE \E killed \in BOOLEAN :
              IF killer.request_record[1].pid # <<>> /\ ~killed
              THEN /\ killer' = [killer EXCEPT !.pc = "ProcessLookupError"]
                   /\ UNCHANGED request_table
              ELSE LET request_record == [killer.request_record[1] EXCEPT !.status = "CANCELLED", !.finished_at = <<now>>]
                   IN  /\ killer' = next_request([killer EXCEPT
                                       !.signalled = IF request_record.pid = <<>> THEN @ ELSE @ \cup {request_record.pid[1]},
                                       !.cancelled_request_ids = Append(@, killer.request_ids[killer.i])])
                       /\ request_table' = update_request_exit(request_table, <<request_record>>)
    /\ UNCHANGED <<log_files, worker, cleaner, now>>
    /\ UNCHANGED <<engine_all, handle_vars, lock_vars, loop_vars, cleanup_vars, lambda_vars>>

\* set_request_succeeded, set_request_failed or set_request_cancelled of a
\* worker on its request, up to the `yield` of update_request.
SetRequestRead ==
    /\ worker.pc = "idle"
    /\ \E op \in {"SUCCEEDED", "FAILED", "CANCELLED"}, request_id \in RequestIds :
         \E request \in get_request_no_lock(request_table, request_id) :
           worker' = [worker EXCEPT !.pc = IF request = <<>> THEN "AssertionError" ELSE "with",
                                    !.op = op, !.request_id = request_id, !.request_task = request]
    /\ UNCHANGED <<request_table, log_files, killer, cleaner, now>>
    /\ UNCHANGED <<engine_all, handle_vars, lock_vars, loop_vars, cleanup_vars, lambda_vars>>

\* The body of the `with` of set_request_* and its exit.
SetRequestWrite ==
    /\ worker.pc = "with"
    /\ request_table' = update_request_exit(request_table,
                            <<[worker.request_task[1] EXCEPT !.status = worker.op, !.finished_at = <<now>>]>>)
    /\ worker' = [worker EXCEPT !.pc = "returned"]
    /\ UNCHANGED <<log_files, killer, cleaner, now>>
    /\ UNCHANGED <<engine_all, handle_vars, lock_vars, loop_vars, cleanup_vars, lambda_vars>>

\* clean_finished_requests_with_retention: get_request_tasks.
CleanSelect ==
    /\ cleaner.pc = "idle"
    /\ \E retention_seconds \in 0..1 :
         cleaner' = [cleaner EXCEPT !.pc = "unlink", !.retention_seconds = retention_seconds,
                        !.reqs = {row \in request_table : finished_before(row, finished_status, now - retention_seconds)}]
    /\ UNCHANGED <<request_table, log_files, killer, worker, now>>
    /\ UNCHANGED <<engine_all, handle_vars, lock_vars, loop_vars, cleanup_vars, lambda_vars>>

\* run_in_parallel of `req.log_path.unlink(missing_ok=True)` over reqs.
CleanUnlink ==
    /\ cleaner.pc = "unlink"
    /\ log_files' = log_files \ {req.request_id : req \in cleaner.reqs}
    /\ cleaner' = [cleaner EXCEPT !.pc = "delete"]
    /\ UNCHANGED <<request_table, killer, worker, now>>
    /\ UNCHANGED <<engine_all, handle_vars, lock_vars, loop_vars, cleanup_vars, lambda_vars>>

\* _delete_requests(reqs): DELETE ... WHERE request_id IN (ids of reqs).
CleanDelete ==
    /\ cleaner.pc = "delete"
    /\ request_table' = {row \in request_table : row.request_id \notin {req.request_id : req \in cleaner.reqs}}
    /\ cleaner' = [cleaner EXCEPT !.pc = "returned"]
    /\ UNCHANGED <<log_files, killer, worker, now>>
    /\ UNCHANGED <<engine_all, handle_vars, lock_vars, loop_vars, cleanup_vars, lambda_vars>>

\* kill_requests on its own.
KillNext ==
    \/ KillRequests
    \/ KillRead
    \/ KillWrite

KillSpec == RequestsInit /\ [][KillNext]_vars

\* The retention cleanup on its own, at any time.
CleanNext ==
    \/ Tick
    \/ CleanSelect
    \/ CleanUnlink
    \/ CleanDelete

CleanSpec == RequestsInit /\ [][CleanNext]_vars

\* kill_requests and a worker side by side.
RequestsNext ==
    \/ KillRequests
    \/ KillRead
    \/ KillWrite
    \/ SetRequestRead
    \/ SetRequestWrite

RequestsSpec == RequestsInit /\ [][RequestsNext]_vars

(***************************************************************************)
(* Properties of the failover engine.                                      *)
(***************************************************************************)
Blocked(blocked, res, region, z) ==
    \E b \in blocked : should_be_blocked_by([res EXCEPT !.region = region, !.zone = z], b)

NewCall == Len(calls') = Len(calls) + 1
LastCall == calls[Len(calls)]
PreBlockedXY == { [AWS_east EXCEPT !.zone = "x"], [AWS_east EXCEPT !.zone = "y"] }

\* C1: the provisioner is never invoked for a zone that a blocklist pattern
\* blocks at that moment; a yielded zone list whose zones are all blocked is
\* skipped without a config write, a state-store write or a cloud call; and
\* with zones {x, y, z} of which x and y are blocked beforehand, the only
\* call in that region is a single one, for zone z.
C1_NoBlockedZoneProvisioned ==
    /\ [][ NewCall =>
             /\ calls'[Len(calls')].zones = zones
             /\ calls'[Len(calls')].resources = to_provision
             /\ \A i \in 1..Len(zones) :
                   ~Blocked(blocked_resources, to_provision, to_provision.region, zones[i]) ]_vars
    /\ [][ (pc = "yield" /\ zone_iter' = zone_iter + 1) =>
             LET zs == yield_zones(to_provision, prev_cluster_status, prev_yaml_zones)[zone_iter + 1]
             IN  (zs # ZonesNone /\ \A i \in 1..Len(zs) :
                        Blocked(blocked_resources, to_provision, to_provision.region, zs[i]))
                 => /\ pc' = "yield"
                    /\ config_writes' = config_writes
                    /\ cluster_table' = cluster_table
                    /\ calls' = calls ]_vars
    /\ [](task_blocked_resources = PreBlockedXY =>
             /\ \A i \in 1..Len(calls) :
                   calls[i].resources.cloud = "AWS" => calls[i].zones = <<"z">>
             /\ Cardinality({i \in 1..Len(calls) : calls[i].resources.cloud = "AWS"}) <= 1)

\* x and y were blocked beforehand and the provisioner was called for z.
C1_Witness ==
    /\ task_blocked_resources = PreBlockedXY
    /\ calls # <<>>
    /\ LastCall = Call(AWS_east, <<"z">>, TRUE, NoError)

SameCandidate(c, d) ==
    /\ c.resources.cloud = d.resources.cloud
    /\ c.resources.region = d.resources.region
    /\ c.resources.instance_type = d.resources.instance_type
    /\ \/ c.zones = ZonesNone
       \/ d.zones = ZonesNone
       \/ Range(c.zones) \cap Range(d.zones) # {}

\* C2: within one invocation the provisioner is never called again for a
\* (cloud, region, zone, shape) candidate whose earlier call failed.
C2_NoRepeatOfFailedCandidate ==
    \A i, j \in 1..Len(calls) :
        (i < j /\ ~calls[i].ok) => ~SameCandidate(calls[i], calls[j])

\* A failure that blocked nothing was followed by calls for other candidates.
C2_Witness ==
    /\ Len(calls) >= 3
    /\ calls[1].err = BareQuotaFailure
    /\ ~calls[2].ok

\* C3: every provisioner call is made with the attempt's handle already in
\* the state store in INIT status, and never in a dryrun.
C3_InitRecordedBeforeProvision ==
    [][ NewCall =>
          /\ ~dryrun
          /\ cluster_table.status = "INIT"
          /\ cluster_table.handle = handle
          /\ handle.launched_resources.cloud = to_provision.cloud
          /\ handle.launched_resources.region = to_provision.region
          /\ status_log # <<>>
          /\ status_log[Len(status_log)] = "INIT" ]_vars

\* A first call was made for a cluster that did not exist before.
C3_Witness ==
    /\ Len(calls) = 1
    /\ prev_cluster_status = None
    /\ status_log = <<"INIT">>
    /\ pc = "post_provision"

\* C4: every ResourcesUnavailableError that _retry_zones raises for an
\* existing cluster has no_failover=True when the cluster was ever up, and
\* no_failover=False when it is in INIT and was never up.
C4_RelaunchFailureFlag ==
    (pc = "raised" /\ prev_cluster_status # None) =>
        /\ (prev_cluster_ever_up => raised.no_failover)
        /\ ((prev_cluster_status = "INIT" /\ ~prev_cluster_ever_up) => ~raised.no_failover)

\* C5: for an existing cluster the generator yields a single candidate, the
\* recorded zones in the recorded region, so that at most one provisioner
\* call is made, for the recorded resources and within the recorded zones.
C5_ExistingClusterSingleCandidate ==
    prev_cluster_status # None =>
        /\ zone_iter <= 1
        /\ Len(calls) <= 1
        /\ \A i \in 1..Len(calls) :
              /\ calls[i].resources = prev_handle.launched_resources
              /\ Range(calls[i].zones) \subseteq
                    Range(get_previously_launched_zones(prev_handle.launched_resources, prev_yaml_zones))
        /\ (pc \in {"write_config", "record_init", "provision"} =>
              Range(zones) \subseteq
                 Range(get_previously_launched_zones(prev_handle.launched_resources, prev_yaml_zones)))

\* The relaunch of a stopped cluster in its recorded zone has failed.
C5_Witness ==
    /\ prev_cluster_status = "STOPPED"
    /\ Len(calls) = 1
    /\ ~calls[1].ok
    /\ pc = "raised"

NoFailoverRaised == raised.type = "ResourcesUnavailableError" /\ raised.no_failover

\* C6: once _retry_zones has raised ResourcesUnavailableError with
\* no_failover=True, provision_with_retries re-raises it with the failover
\* history extended by it, and neither the optimizer nor the provisioner is
\* called again.
C6_NoFailoverStopsEngine ==
    [][ (NoFailoverRaised /\ pc \in {"raised", "except", "done"}) =>
          /\ calls' = calls
          /\ optimizer_calls' = optimizer_calls
          /\ raised' = raised
          /\ to_provision' = to_provision
          /\ (pc = "raised" =>
                /\ pc' = "except"
                /\ failover_history' = Append(failover_history, HistoryEntry(raised))) ]_vars

\* The failed restart of a cluster that had been up went to the caller
\* after one provisioner call and without any optimizer call.
C6_Witness ==
    /\ NoFailoverRaised
    /\ pc = "except"
    /\ ~launchable_retries_disabled
    /\ Len(calls) = 1
    /\ failover_history = <<HistoryEntry(raised)>>
    /\ optimizer_calls = 0

\* C7 as stated: _provision never raises ExecutionRetryableError for a
\* failure with no_failover=True, whatever retry_until_up is.
C7_NeverRetryableOnNoFailover ==
    ~(pc = "done" /\ NoFailoverRaised /\ outcome = "ExecutionRetryableError")

\* C7, amended: when provision_with_retries raises with no_failover=True,
\* _provision starts no other provisioning round; it raises
\* ExecutionRetryableError exactly when retry_until_up is set, and otherwise
\* raises ResourcesUnavailableError and leaves the cluster's record alone.
C7_NoFailoverHandling ==
    [][ (pc = "except" /\ NoFailoverRaised) =>
          /\ pc' = "done"
          /\ calls' = calls
          /\ optimizer_calls' = optimizer_calls
          /\ (outcome' = "ExecutionRetryableError" <=> retry_until_up')
          /\ (~retry_until_up' =>
                /\ outcome' = "ResourcesUnavailableError"
                /\ cluster_table' = cluster_table) ]_vars

\* A stopped cluster failed to restart without retry_until_up: its record
\* is still there.
C7_Witness ==
    /\ pc = "done"
    /\ NoFailoverRaised
    /\ ~retry_until_up
    /\ outcome = "ResourcesUnavailableError"
    /\ cluster_table.status = "STOPPED"

\* C8: after a definitive False from check_quota_available the engine
\* raises ResourcesUnavailableError and, for that candidate, neither calls
\* the provisioner nor writes a handle; after True or an exception it goes
\* on to the zones of the candidate.
C8_QuotaShortCircuit ==
    /\ [][ (pc = "retry_zones") =>
             /\ (quota_check' = "False" =>
                   /\ pc' = "raised"
                   /\ raised'.type = "ResourcesUnavailableError")
             /\ (quota_check' \in {"True", "raised"} => pc' = "yield") ]_vars
    /\ [][ (quota_check = "False" /\ pc # "retry_zones") =>
             /\ calls' = calls
             /\ handle' = handle
             /\ config_writes' = config_writes
             /\ (cluster_table' = cluster_table \/ cluster_table'.status = None) ]_vars

\* The quota check raised an exception and the provisioner was then called.
C8_Witness ==
    /\ quota_check = "raised"
    /\ pc = "post_provision"
    /\ calls # <<>>

\* C9: a new cluster on GCP in a region with zones [z1, z2]: when the first
\* call, for z1, fails for lack of capacity and the second, for z2,
\* succeeds, there are exactly two calls, the blocklist holds exactly the
\* pattern of z1, and the returned handle is in z2 with the recorded status
\* having gone from INIT to UP.
C9_EndToEndFailover ==
    ( /\ task_blocked_resources = {}
      /\ optimizer_calls = 0
      /\ failover_history = <<>>
      /\ Len(calls) >= 2
      /\ calls[1] = Call(GCP_eu, <<"z1">>, FALSE, Capacity)
      /\ calls[2] = Call(GCP_eu, <<"z2">>, TRUE, NoError) )
    => /\ Len(calls) = 2
       /\ blocked_resources = { [GCP_eu EXCEPT !.zone = "z1"] }
       /\ \A i \in 1..Len(status_log) : status_log[i] \in {"INIT", "UP"}
       /\ (outcome = "handle" =>
             /\ handle.launched_resources.zone = "z2"
             /\ cluster_table.handle = handle
             /\ cluster_table.status = "UP"
             /\ status_log = <<"INIT", "INIT", "UP">>)

C9_Witness ==
    /\ task_blocked_resources = {}
    /\ calls = << Call(GCP_eu, <<"z1">>, FALSE, Capacity), Call(GCP_eu, <<"z2">>, TRUE, NoError) >>
    /\ pc = "done"
    /\ outcome = "handle"

EngineEntered == pc = "outer" /\ failover_history = <<>>
EngineReturned == pc = "post_provision"
EngineRaisedUnavailable == pc = "except"
EngineRaisedOther ==
    /\ pc = "done"
    /\ outcome \in {"StopFailoverError", "InconsistentHighAvailabilityError", "RuntimeError", "AssertionError", "AttributeError", "TypeError"}

Candidates ==
    { Resources(l[1], l[2], l[3], t) :
        l \in { <<"GCP", "eu", None>>, <<"GCP", "eu", "z1">>, <<"GCP", "eu", "z2">>, <<"GCP", "us", None>>, <<"GCP", "us", "u1">>,
                <<"AWS", "east", None>>, <<"AWS", "east", "x">>, <<"AWS", "east", "y">>, <<"AWS", "east", "z">>, <<"AWS", "west", "w">>,
                <<"Azure", "az", None>>, <<"Azure", "az2", None>>,
                <<"Lambda", "l1", None>>, <<"Lambda", "l2", None>>,
                <<"SCP", "s1", "sz">>, <<"SCP", "s2", "sz2">>,
                <<"OCI", "o1", None>>, <<"OCI", "o1", "oz1">>, <<"OCI", "o1", "oz2">>, <<"OCI", "o2", "oz3">>,
                <<"IBM", "ib", "p">>, <<"IBM", "ib2", "q">> },
        t \in {InstanceType, OtherInstanceType} }

\* The candidates a blocklist blocks.
blocked_candidates(blocked) ==
    { c \in Candidates : \E b \in blocked : should_be_blocked_by(c, b) }

\* C11: idempotent blocking. For the blocklist S of every state and every
\* pattern r, _add_to_blocked_resources(S, r) applied twice gives the same
\* set as applied once, and the same candidates are blocked; in particular,
\* repeating the call that was just made changes nothing.
C11_IdempotentBlocking ==
    /\ \A r \in Patterns :
          LET once == add_to_blocked_resources(blocked_resources, r)
          IN  add_to_blocked_resources(once, r) = once
    /\ classified.op = "add" =>
          LET twice == add_to_blocked_resources(blocked_resources, classified.resources)
          IN  /\ twice = blocked_resources
              /\ blocked_candidates(twice) = blocked_candidates(blocked_resources)

\* A pattern that is already in the set is added a second time.
C11_Witness ==
    /\ classified.op = "add"
    /\ classified.n = 2
    /\ classified.resources \in classified.before
    /\ classified.before \notin InitialBlocklists
    /\ blocked_resources = classified.before

\* C12: subsumption on insert. _add_to_blocked_resources inserts the pattern
\* if and only if no pattern already in the set blocks it (unset fields are
\* wildcards) and changes nothing else; so with the zone-wildcard pattern p1
\* in the set, adding p2 = p1 with a concrete zone is a no-op, while a set
\* holding only zonal patterns (p2 among them) does not block p1, which is
\* inserted next to them.
C12_SubsumptionOnInsert ==
    classified.op = "add" =>
        LET r == classified.resources
            S == classified.before
        IN  /\ blocked_resources = IF \E b \in S : should_be_blocked_by(r, b) THEN S ELSE S \cup {r}
            /\ (r.zone # None /\ [r EXCEPT !.zone = None] \in S) => blocked_resources = S
            /\ (r.zone = None /\ \A b \in S : b.zone # None) =>
                    /\ r \notin S
                    /\ blocked_resources = S \cup {r}

\* p1 (zone wildcard) was inserted into a set that held the zonal pattern for
\* z1, and the zonal pattern for z2 is then added: nothing is inserted.
C12_Witness ==
    /\ classified.op = "add"
    /\ classified.n = 2
    /\ classified.resources = GCP_eu_z("z2")
    /\ classified.before = {GCP_eu_z("z1"), GCP_eu}
    /\ blocked_resources = classified.before

\* The classifier call just made was the structured one and returned.
ClassifiedV2(cloud) ==
    /\ classified.op = "v2"
    /\ classified.resources.cloud = cloud
    /\ classified.exc = None

\* The candidates that the call just made has newly blocked.
newly_blocked == blocked_candidates(blocked_resources) \ blocked_candidates(classified.before)

AllCodesIn(err, codes) ==
    /\ err.type = "ProvisionerError"
    /\ \A i \in 1..Len(err.errors) : err.errors[i].code \in codes

\* C13: zone-scoped structured errors. After the GCP classifier has handled
\* a ProvisionerError whose entries all carry a zone-scoped code, raised in
\* zone z, the blocklist is the old one plus at most the pattern of the
\* launchable resources in zone z, that pattern is blocked, and no candidate
\* outside zone z (another zone of the region, the region as a whole,
\* another region) has become blocked.
C13_ZoneScopedErrors ==
    (ClassifiedV2("GCP") /\ AllCodesIn(classified.err, GcpZoneCodes)) =>
        LET z == classified.zones[1]
            p == [classified.resources EXCEPT !.zone = z]
        IN  /\ classified.before \subseteq blocked_resources
            /\ blocked_resources \subseteq classified.before \cup {p}
            /\ \E b \in blocked_resources : should_be_blocked_by(p, b)
            /\ \A c \in newly_blocked :
                  c.cloud = "GCP" /\ c.region = classified.region /\ c.zone = z

\* Two zonal entries, the second with a message that mentions a region,
\* raised in z1 with an empty blocklist: only z1 is blocked.
C13_Witness ==
    /\ ClassifiedV2("GCP")
    /\ classified.err = ProvisionerError(<<ErrorEntry("RESOURCE_OPERATION_RATE_EXCEEDED", {}), ErrorEntry("8", {"in region"})>>)
    /\ classified.zones = <<"z1">>
    /\ classified.before = {}
    /\ blocked_resources = {GCP_eu_z("z1")}

\* Region-scoped entries as the claim lists them.
RegionScoped(e) ==
    \/ e.code \in {"QUOTA_EXCEEDED", "quotaExceeded"} /\ "'GPUS_ALL_REGIONS' exceeded" \notin e.message
    \/ e.code = "SUBNET_NOT_FOUND_FOR_VPC"
    \/ e.code = "type.googleapis.com/google.rpc.QuotaFailure" /\ "in region" \in e.message

AllEntries(err, P(_)) ==
    /\ err.type = "ProvisionerError"
    /\ \A i \in 1..Len(err.errors) : P(err.errors[i])

\* C14: region-scoped structured errors. After the GCP classifier has
\* handled a ProvisionerError whose entries are all region-scoped, the
\* blocklist is the old one plus at most the pattern of the launchable
\* resources with the attempted region and no zone; every zone of that
\* region is then blocked for these resources, and no candidate of another
\* region has become blocked.
C14_RegionScopedErrors ==
    (ClassifiedV2("GCP") /\ AllEntries(classified.err, RegionScoped)) =>
        LET p == [classified.resources EXCEPT !.region = classified.region, !.zone = None]
        IN  /\ classified.before \subseteq blocked_resources
            /\ blocked_resources \subseteq classified.before \cup {p}
            /\ \A c \in Candidates :
                  (c.cloud = "GCP" /\ c.region = classified.region /\ c.instance_type = p.instance_type)
                      => c \in blocked_candidates(blocked_resources)
            /\ \A c \in newly_blocked : c.cloud = "GCP" /\ c.region = classified.region

\* A TPU pod QuotaFailure "in region" raised in z2 after z1 was blocked: the
\* region pattern is added beside the zone pattern.
C14_Witness ==
    /\ ClassifiedV2("GCP")
    /\ classified.err = ProvisionerError(<<ErrorEntry("type.googleapis.com/google.rpc.QuotaFailure", {"in region"})>>)
    /\ classified.resources = GCP_eu_z("z2")
    /\ classified.before = {GCP_eu_z("z1")}
    /\ blocked_resources = {GCP_eu_z("z1"), GCP_eu}

\* Cloud-scoped GCP entries as the claim lists them: no permission, the
\* global quota, the missing (global) VPC.
GcpCloudScoped(e) ==
    \/ e.code = "IAM_PERMISSION_DENIED"
    \/ e.code \in {"QUOTA_EXCEEDED", "quotaExceeded"} /\ "'GPUS_ALL_REGIONS' exceeded" \in e.message
    \/ e.code = "VPC_NOT_FOUND"

\* The operation just made handled a cloud-scoped failure: a classifier call
\* for one, or the add of the region-less and zone-less pattern that
\* _retry_zones makes when config generation finds the credentials invalid.
CloudScopedFailure ==
    \/ /\ classified.op = "v2"
       /\ classified.exc = None
       /\ \/ classified.resources.cloud \in {"AWS", "SCP"} /\ classified.err.type = "InvalidCloudCredentials"
          \/ classified.resources.cloud = "Azure" /\ "ClientAuthenticationError" \in classified.err.str
          \/ /\ classified.resources.cloud = "GCP"
             /\ classified.err.type = "ProvisionerError"
             /\ \E i \in 1..Len(classified.err.errors) : GcpCloudScoped(classified.err.errors[i])
    \/ /\ classified.op = "add"
       /\ classified.resources.region = None
       /\ classified.resources.zone = None

UnknownGcpEntry(e) ==
    /\ e.code \notin GcpZoneCodes \cup {"QUOTA_EXCEEDED", "quotaExceeded", "VPC_NOT_FOUND", "SUBNET_NOT_FOUND_FOR_VPC", "IAM_PERMISSION_DENIED"}
    /\ e.code = "type.googleapis.com/google.rpc.QuotaFailure" => e.message \cap {"in region", "in zone"} = {}
    /\ e.message \cap {"Requested disk size cannot be smaller than the image size", "Policy update access denied.", "is not found or access is unauthorized"} = {}

\* The structured classifier has just handled, for an attempt on zones, a
\* failure that matches no entry of the cloud's table.
UnknownFailureClassified ==
    /\ classified.op = "v2"
    /\ classified.exc = None
    /\ classified.zones # ZonesNone
    /\ CASE classified.resources.cloud = "GCP" ->
                classified.err.type = "ProvisionerError" => AllEntries(classified.err, UnknownGcpEntry)
         [] classified.resources.cloud \in {"AWS", "SCP"} -> classified.err.type # "InvalidCloudCredentials"
         [] classified.resources.cloud = "Azure" ->
                classified.err.str \cap {"(ReadOnlyDisabledSubscription)", "ClientAuthenticationError"} = {}
         [] classified.resources.cloud = "Lambda" -> "Regions with capacity available:" \notin classified.err.str
         [] OTHER -> TRUE

\* C16: unknown errors are never ignored and never widened. After the
\* structured classifier has handled a failure that matches no table entry,
\* each attempted zone is blocked, the patterns added are those of the
\* attempted zones, and no candidate outside the attempted zones has become
\* blocked.
C16_UnknownErrorsBlockZones ==
    UnknownFailureClassified =>
        LET attempted == { [classified.resources EXCEPT !.zone = z] : z \in Range(classified.zones) }
        IN  /\ \A p \in attempted : \E b \in blocked_resources : should_be_blocked_by(p, b)
            /\ classified.before \subseteq blocked_resources
            /\ blocked_resources \subseteq classified.before \cup attempted
            /\ \A c \in newly_blocked :
                  /\ c.cloud = classified.resources.cloud
                  /\ c.region = classified.region
                  /\ c.zone \in Range(classified.zones)

\* C17 as stated: the classifier never raises. After every call of either
\* classifier no exception has escaped, and the blocklist has only grown.
C17_ClassifierNeverRaises ==
    classified.op \in {"v1", "v2"} =>
        /\ classified.exc = None
        /\ classified.before \subseteq blocked_resources

\* C17, amended: the structured classifier raises only the AssertionError
\* of _gcp_handler, when a GCP attempt does not carry exactly one zone; the
\* text classifier returns when there is no output (stdout None) and
\* otherwise raises AttributeError for a cloud without a text handler,
\* RuntimeError when no line of the output is a recognised error line, and
\* TypeError when the recognised error comes with zones None. Whether or
\* not it raises, a classifier only adds patterns to the blocklist, and it
\* adds none when it raises.
C17_ClassifierRaisesOnlyWhen ==
    /\ classified.op = "v2" =>
          /\ classified.exc =
                IF classified.resources.cloud = "GCP" /\ Len(classified.zones) # 1
                THEN "AssertionError" ELSE None
    /\ classified.op = "v1" =>
          /\ classified.exc =
                CASE classified.out.is_none -> None
                  [] ~classified.out.is_none /\ classified.resources.cloud # "IBM" -> "AttributeError"
                  [] ~classified.out.is_none /\ classified.resources.cloud = "IBM" /\ ~classified.out.known_errors -> "RuntimeError"
                  [] OTHER -> IF classified.zones = ZonesNone THEN "TypeError" ELSE None
    /\ classified.op \in {"v1", "v2"} =>
          /\ classified.before \subseteq blocked_resources
          /\ classified.exc # None => blocked_resources = classified.before

\* The text classifier is given IBM output without a recognised error line,
\* after an earlier operation had blocked something: it raises RuntimeError
\* and the blocklist is as before.
C17_Witness ==
    /\ classified.op = "v1"
    /\ classified.n = 2
    /\ classified.resources = IBM_ib
    /\ classified.out = RayUpOutput(FALSE, FALSE, TRUE)
    /\ classified.exc = "RuntimeError"
    /\ classified.before # {}
    /\ blocked_resources = classified.before

(***************************************************************************)
(* Properties of the legacy (`ray up`) launch path.                        *)
(***************************************************************************)
\* A step that calls _gang_schedule_ray_up, and the call it records.
RayUpCall == NewCall /\ ~uses_skypilot_provisioner(to_provision.cloud)
ThisCall == calls'[Len(calls')]

\* Every zone of the attempt is blocked by the blocklist after the step.
AttemptedZonesBlocked ==
    \A z \in Range(zones) : Blocked(blocked_resources', to_provision, to_provision.region, z)

\* The step ended in an exception leaving the engine, raised by the text
\* classifier or by the teardown of the failed attempt.
StepRaises == pc' = "done" /\ raised' # NoException
ClassifierRaises == StepRaises /\ raised'.reason = "update_blocklist_on_error"
TeardownRaises == StepRaises /\ raised'.reason = "teardown_no_lock"

\* The step tore the failed attempt down / went on without tearing down.
TeardownDone == pc' = "yield" /\ status_log' # status_log
TeardownSkipped == pc' = "yield" /\ status_log' = status_log /\ cluster_table' = cluster_table

ThisOutput ==
    RayUpOutput("ERR" \in ThisCall.err.str,
                "rsync: command not found" \in ThisCall.err.str,
                "Acquiring an up-to-date head node" \in ThisCall.err.str)
TwinOutput == [ThisOutput EXCEPT !.head_marker = ~@]

\* C19: the head-node line only affects cleanup. For a HEAD_FAILED attempt,
\* the text classifier run on the output and the run on the output that
\* differs only in the line 'Acquiring an up-to-date head node' raise the
\* same exception or none and give the same blocklist, which is the
\* blocklist after the step; when they return, their flags
\* definitely_no_nodes_launched differ, the flag being True for the output
\* without the line. The teardown of a failed attempt is skipped exactly
\* when the classifier returned for an output without the line and the
\* cluster did not exist before.
C19_HeadMarkerOnlyAffectsCleanup ==
    [][ (RayUpCall /\ ~ThisCall.ok) =>
          /\ ThisCall.err.type = "HEAD_FAILED" =>
                LET this == update_blocklist_on_error_v1(blocked_resources, to_provision, to_provision.region, zones, ThisOutput)
                    twin == update_blocklist_on_error_v1(blocked_resources, to_provision, to_provision.region, zones, TwinOutput)
                IN  /\ this.exc = twin.exc
                    /\ this.blocked = twin.blocked
                    /\ blocked_resources' = twin.blocked
                    /\ this.exc = None =>
                          /\ this.definitely_no_nodes_launched # twin.definitely_no_nodes_launched
                          /\ this.definitely_no_nodes_launched = ~ThisOutput.head_marker
          /\ TeardownSkipped <=>
                /\ ThisCall.err.type = "HEAD_FAILED"
                /\ ~ClassifierRaises
                /\ ~ThisOutput.head_marker
                /\ prev_cluster_status = None ]_vars

\* A head-node failure of a new cluster whose output has a recognised error
\* line and not the head-node line: the zone is blocked, the teardown was
\* skipped and the INIT record is still there.
C19_Witness ==
    /\ calls # <<>>
    /\ LastCall.err.type = "HEAD_FAILED"
    /\ LastCall.err.str = {"ERR"}
    /\ prev_cluster_status = None
    /\ pc = "yield"
    /\ status_log = <<"INIT">>
    /\ cluster_table.status = "INIT"
    /\ [IBM_ib EXCEPT !.zone = "p"] \in blocked_resources

(***************************************************************************)
(* Propagation of provisioner errors.                                      *)
(***************************************************************************)
\* A step in which provisioner.bulk_provision raised.
BulkProvisionFailed == NewCall /\ uses_skypilot_provisioner(to_provision.cloud) /\ ~ThisCall.ok

Reraised == {"StopFailoverError", "InconsistentHighAvailabilityError"}

CleanupFailed ==
    /\ NewCall
    /\ ~ThisCall.ok
    /\ raised'.reason \in {"post_teardown_cleanup", "teardown_no_lock"}

\* C21: cleanup after a failed attempt is best-effort. When the cleanup of a
\* failed attempt itself fails, the attempted zones are blocked afterwards
\* and the engine goes on with the next zone candidate.
C21_CleanupBestEffort ==
    [][ CleanupFailed => (AttemptedZonesBlocked /\ pc' = "yield") ]_vars

\* provision_with_retries raises its final error: the optimizer found no
\* further feasible shape.
FinalErrorRaised == pc = "except" /\ raised.reason = "optimizer"

\* A failover step that was not stopped by an assertion: the shape in
\* to_provision has just been defeated by the last exception of the history.
ShapeDefeated == pc = "failover" /\ pc' # "done"

\* The table has a row for the defeated shape giving the last exception.
RowWritten ==
    <<to_provision, failover_history[Len(failover_history)]>> \in resource_exceptions'

\* C22: when the optimizer finds no further shape, failover_history has one
\* entry per attempted shape and the table one row per attempted shape, the
\* first attempt on a previously-INIT cluster included, and each row gives
\* the exception that defeated its shape.
C22_HistoryAndTable ==
    /\ [](FinalErrorRaised =>
            /\ Len(failover_history) = optimizer_calls
            /\ Cardinality(resource_exceptions) = optimizer_calls)
    /\ [][ShapeDefeated => RowWritten]_vars

\* A step of the top of the retry loop that caught a configuration error.
ConfigErrorCaught == pc = "outer" /\ pc' = "failover"

\* The failover step that follows a caught configuration error.
ConfigErrorFailover ==
    /\ pc = "failover"
    /\ failover_history # <<>>
    /\ failover_history[Len(failover_history)].type \in ConfigErrors

\* The blocklist holds a pattern for the whole cloud.
CloudBlocked(blocked, cloud) ==
    \E b \in blocked : b.cloud = cloud /\ b.region = None /\ b.zone = None

\* C23: a configuration error caught at the top of the retry loop blocks the
\* whole current cloud and is appended to the failover history; the engine
\* then fails over to a shape of another cloud (or finds none), and after a
\* failover the provisioner is never called on a cloud that is blocked as a
\* whole.
C23_ConfigErrorBlocksCloud ==
    /\ [][ConfigErrorCaught =>
            /\ CloudBlocked(blocked_resources', to_provision.cloud)
            /\ Len(failover_history') = Len(failover_history) + 1
            /\ SubSeq(failover_history', 1, Len(failover_history)) = failover_history
            /\ failover_history'[Len(failover_history')].type \in ConfigErrors]_vars
    /\ [][ConfigErrorFailover =>
            \/ pc' = "outer" /\ to_provision'.cloud # to_provision.cloud
            \/ pc' = "except" /\ raised'.reason = "optimizer"]_vars
    /\ [][NewCall /\ optimizer_calls > 0 =>
            ~CloudBlocked(blocked_resources, ThisCall.resources.cloud)]_vars

(***************************************************************************)
(* Cluster lifecycle writes.                                               *)
(***************************************************************************)
\* The step writes UP to the cluster record.
WritesUp == cluster_table'.status = "UP" /\ cluster_table' # cluster_table

\* C24: every provisioner call is made with the cluster record in INIT, also
\* when the cluster was UP before; the record is set to UP only by the step
\* after the provisioner call succeeded that finishes the post-provision
\* setup; and after a failed attempt the record is not UP.
C24_LifecycleWrites ==
    /\ [][NewCall => cluster_table.status = "INIT"]_vars
    /\ [][WritesUp => pc = "post_provision" /\ calls # <<>> /\ LastCall.ok /\ outcome' = "handle"]_vars
    /\ [](calls # <<>> /\ ~LastCall.ok => cluster_table.status # "UP")

\* A cluster that was UP was relaunched: its record went to INIT, the
\* provisioner call succeeded and the record was set to UP again.
C24_Witness ==
    /\ outcome = "handle"
    /\ prev_cluster_status = "UP"
    /\ LastCall.ok
    /\ cluster_table.status = "UP"
    /\ status_log = <<"INIT", "UP">>

(***************************************************************************)
(* Properties of the resource handle.                                      *)
(***************************************************************************)
\* The last method applied was update_cluster_ips and it returned normally.
UpdatedClusterIps == applied.op = "update_cluster_ips" /\ applied.exc = None

\* The (internal, feasible) pairs the provider reported to that call, in the
\* order it reported them.
ReportedPairs ==
    IF ~IsNone(applied.cluster_info) THEN applied.cluster_info[1].ips
    ELSE IF applied.env.use_internal_ips
    THEN zip(internals(applied.env.node_ips[1]), internals(applied.env.node_ips[1]))
    ELSE applied.env.node_ips[1]

StablePairs == self_handle.stable_internal_external_ips[1]

\* The head's pair is first and there is one pair per reported IP.
HeadFirstOnePairEach ==
    /\ ~IsNone(self_handle.stable_internal_external_ips)
    /\ Len(StablePairs) = Len(ReportedPairs)
    /\ Range(StablePairs) = Range(ReportedPairs)
    /\ ReportedPairs # <<>> => StablePairs[1] = ReportedPairs[1]

\* The pairs after the head are in ascending order under lt.
TailAscending(lt(_, _)) ==
    \A i \in 2..Len(StablePairs), j \in 2..Len(StablePairs) :
        i < j => ~lt(StablePairs[j], StablePairs[i])

NonKubernetes == self_handle.launched_resources.cloud # "Kubernetes"

\* C25 as stated: after every successful update_cluster_ips the head's pair
\* is first, there is one pair per reported IP and, for a non-Kubernetes
\* cluster, the other pairs are in ascending order of the external IP.
C25_AsStated ==
    UpdatedClusterIps =>
        /\ HeadFirstOnePairEach
        /\ NonKubernetes => TailAscending(key_lt_numeric)

\* C25, amended: the same, the order of the other pairs being the order of
\* the IPs' text (character by character), which makes the list the same for
\* every order in which the provider reports the same nodes.
C25_StableIps ==
    UpdatedClusterIps =>
        /\ HeadFirstOnePairEach
        /\ NonKubernetes => TailAscending(key_lt)

\* Three nodes were reported with the workers in descending order of their
\* text and were stored in ascending order.
C25_Witness ==
    /\ UpdatedClusterIps
    /\ NonKubernetes
    /\ externals(ReportedPairs) = <<2, 9, 10>>
    /\ externals(StablePairs) = <<2, 10, 9>>

\* The last method applied was __setstate__, on a state of version n.
Unpickled == applied.op = "setstate"
StoredVersion == version_of(applied.state)

\* The fields of the current schema.
SchemaFields ==
    {"_cluster_yaml", "stable_internal_external_ips", "stable_ssh_ports", "docker_user", "cluster_name_on_cloud", "cached_cluster_info"}

\* C26: unpickling a state written at any schema version from -1 to 10 never
\* fails, and the handle it gives has _version 10 and every field of the
\* current schema.
C26_NoVersionSkewFailure ==
    Unpickled =>
        /\ applied.exc = None
        /\ self_handle._version = _VERSION
        /\ "_version" \in self_handle.keys
        /\ SchemaFields \subseteq self_handle.keys

\* The yaml path a pickled state holds, under its old or its new key.
StoredYaml ==
    IF StoredVersion < 2 THEN applied.state.cluster_yaml ELSE applied.state._cluster_yaml

\* A handle freshly constructed at the current version from what the pickled
\* state holds; fields the state's version did not have yet take the
\* defaults (cluster_name_on_cloud that of the migration: the cluster name).
FreshHandle ==
    [CloudVmRayResourceHandle(
        applied.state.cluster_name,
        IF StoredVersion < 6 THEN applied.state.cluster_name ELSE applied.state.cluster_name_on_cloud,
        StoredYaml,
        applied.state.launched_nodes,
        applied.state.launched_resources,
        IF StoredVersion < 3 THEN <<>> ELSE applied.state.stable_internal_external_ips,
        IF StoredVersion < 4 THEN <<>> ELSE applied.state.stable_ssh_ports,
        IF StoredVersion < 8 THEN <<>> ELSE applied.state.cached_cluster_info)
     EXCEPT !.docker_user = IF StoredVersion < 5 THEN None ELSE applied.state.docker_user]

Loaded == Unpickled /\ applied.exc = None

StoredOrFetchedIps ==
    LET stored == IF StoredVersion < 3 THEN <<>> ELSE applied.state.stable_internal_external_ips
    IN  \/ self_handle.stable_internal_external_ips = stored
        \/ /\ StoredVersion < 4
           /\ IsNone(stored)
           /\ ~IsNone(applied.env.node_ips)
           /\ self_handle.stable_internal_external_ips = Some(stable_order(applied.env.node_ips[1], FALSE))

StoredOrFetchedInfo ==
    IF StoredVersion >= 8 THEN self_handle.cached_cluster_info = applied.state.cached_cluster_info
    ELSE self_handle.cached_cluster_info \in {<<>>, applied.env.cluster_info}

C28_MutualExclusion ==
    \A p \in Provisions : ~(InSection(p) /\ InSection("teardown"))

\* _teardown reaches teardown_no_lock only by a step that acquires the lock.
TeardownEntersByAcquiring ==
    [][(~InSection("teardown") /\ InSection("teardown")') => (lock_holder = None /\ lock_holder' = "teardown")]_vars

\* _teardown catches at most 2 LockTimeouts, and raises RuntimeError exactly
\* when it has caught 2.
TeardownAttemptsBounded ==
    /\ lock_timeouts <= 2
    /\ proc_pc["teardown"] = "RuntimeError" <=> lock_timeouts = 2

\* C29: _teardown never runs teardown_no_lock without holding the cluster
\* lock; it tries to acquire the lock at most 2 times, and raises
\* RuntimeError when both attempts time out.
C29_TeardownHoldsLock ==
    /\ InSection("teardown") => lock_holder = "teardown"
    /\ TeardownAttemptsBounded

(***************************************************************************)
(* Properties of the retry loops.                                          *)
(***************************************************************************)
\* `ray up` is run at most _MAX_RAY_UP_RETRY times, and a failure that is
\* left when the loop ends is reported as HEAD_FAILED.
RayUpBounded ==
    /\ ray_up_calls <= _MAX_RAY_UP_RETRY
    /\ ray_up_pc = "HEAD_FAILED" => ray_up_return_value[1].returncode # 0
    /\ ray_up_pc = "HEAD_UP" => ray_up_return_value[1].returncode = 0

\* C30: `ray up` is run at most _MAX_RAY_UP_RETRY times, and the zone query
\* of a node is retried at most _MAX_GET_ZONE_RETRY times, i.e. run at most
\* _MAX_GET_ZONE_RETRY + 1 times.
C30_BoundedRetries ==
    /\ RayUpBounded
    /\ \A r \in Runners : get_zone_calls[r] <= _MAX_GET_ZONE_RETRY + 1

(***************************************************************************)
(* Properties of the failover engine around an existing cluster.           *)
(***************************************************************************)
\* The retry loop is about to go on after the relaunch of an existing
\* cluster failed in _retry_zones.
RelaunchFailover ==
    /\ pc = "failover"
    /\ prev_cluster_status # None
    /\ raised.reason = "relaunch_failed"

\* C31: when failover continues after a previously-INIT cluster failed to
\* relaunch, the assertions of provision_with_retries hold on every
\* provisioner path: prev_cluster_status is INIT and the state store holds no
\* handle for the cluster name.
C31_FailoverAssertions ==
    RelaunchFailover => (prev_cluster_status = "INIT" /\ cluster_table.status = None)

\* _yield_zones is resumed after its single candidate for an existing
\* cluster: the relaunch has failed.
RelaunchFailed ==
    /\ pc = "yield"
    /\ prev_cluster_status # None
    /\ pc' \notin {"yield", "write_config"}

\* C32: for every prev_cluster_status in {INIT, STOPPED, UP} and every
\* prev_cluster_ever_up, a failed relaunch of an existing cluster ends in
\* ResourcesUnavailableError; the assertion of _yield_zones never fails.
C32_RelaunchEndsUnavailable ==
    [][RelaunchFailed => raised'.type = "ResourcesUnavailableError"]_vars

\* The except clause of _provision ends a call that was made without
\* retry_until_up.
FinalFailure ==
    /\ pc = "except"
    /\ pc' = "done"
    /\ ~retry_until_up'

\* C33: when provisioning finally fails in _provision without
\* retry_until_up, the cluster record is removed from the state store if and
\* only if the failure has no_failover=False; a cluster whose relaunch failed
\* with no_failover=True keeps its record.
C33_RecordRemovedIffFailover ==
    [][FinalFailure =>
          /\ ~raised.no_failover => cluster_table'.status = None
          /\ raised.no_failover => cluster_table' = cluster_table
          /\ (raised.no_failover /\ raised.reason = "relaunch_failed") => cluster_table'.status # None]_vars

\* A relaunch of a cluster that was up before has failed for good and its
\* record is still in the state store.
C33_Witness ==
    /\ pc = "done"
    /\ outcome = "ResourcesUnavailableError"
    /\ ~retry_until_up
    /\ raised.no_failover
    /\ raised.reason = "relaunch_failed"
    /\ Len(calls) >= 1
    /\ cluster_table.status = "STOPPED"

(***************************************************************************)
(* Properties of post_teardown_cleanup.                                    *)
(***************************************************************************)
\* A step of post_teardown_cleanup that removes the cluster record or marks
\* it stopped, for a handle that has a cluster yaml.
RecordUpdatedWithYaml ==
    /\ cleanup.pc # "idle"
    /\ cleanup.cluster_yaml # None
    /\ cleanup'.record # cleanup.record

\* The last query_instances reported every node as terminated or STOPPED.
ReportedAllTerminated ==
    /\ cleanup.answered = "statuses"
    /\ \A i \in DOMAIN cleanup.node_status_dict : cleanup.node_status_dict[i] \in {None, "STOPPED"}

\* The check polls at most _TEARDOWN_WAIT_MAX_ATTEMPTS times, and ends in
\* RuntimeError, with the record untouched, exactly when the last of them
\* still shows a node in another state.
PollsBounded ==
    /\ cleanup.queries <= _TEARDOWN_WAIT_MAX_ATTEMPTS
    /\ cleanup.pc = "RuntimeError" =>
          /\ cleanup.queries = _TEARDOWN_WAIT_MAX_ATTEMPTS
          /\ ~ReportedAllTerminated
          /\ cleanup.record.status = cleanup.prev_status
    /\ (cleanup.queries = _TEARDOWN_WAIT_MAX_ATTEMPTS /\ cleanup.answered = "statuses" /\ ~ReportedAllTerminated) => cleanup.pc = "RuntimeError"

\* C34 as stated: with a cluster yaml, the record is removed or marked
\* stopped only after query_instances has reported every node as terminated
\* or STOPPED; at most _TEARDOWN_WAIT_MAX_ATTEMPTS polls, then RuntimeError
\* with the record untouched.
C34_AsStated ==
    /\ [][RecordUpdatedWithYaml => ReportedAllTerminated]_vars
    /\ []PollsBounded

\* C34, amended: with a cluster yaml, the record is removed or marked stopped
\* only after query_instances has reported every node as terminated or
\* STOPPED, or, with purge, after it raised ClusterStatusFetchingError; at
\* most _TEARDOWN_WAIT_MAX_ATTEMPTS polls, then RuntimeError with the record
\* untouched.
C34_UpdateAfterCheck ==
    /\ [][RecordUpdatedWithYaml =>
            \/ ReportedAllTerminated
            \/ cleanup.purge /\ cleanup.answered = "ClusterStatusFetchingError"]_vars
    /\ []PollsBounded

\* The record was updated after the tenth poll found the nodes gone.
C34_Witness ==
    /\ cleanup.pc = "returned"
    /\ cleanup.cluster_yaml # None
    /\ cleanup.queries = _TEARDOWN_WAIT_MAX_ATTEMPTS
    /\ ReportedAllTerminated
    /\ cleanup.record.status # cleanup.prev_status

(***************************************************************************)
(* Properties of the cleanup between zone attempts.                        *)
(***************************************************************************)
\* A failed attempt whose cleanup is called with terminate=True
\* (the cluster was never up) and remove_from_db=False.
FailoverCleanup ==
    /\ pc = "provision"
    /\ pc' = "yield"
    /\ ~prev_cluster_ever_up
    /\ cluster_table.status # None

\* C35: a failover cleanup called with terminate=True and
\* remove_from_db=False never removes the cluster record, on the
\* new-provisioner path and on the legacy `ray down` path alike.
C35_FailoverCleanupKeepsRecord ==
    [][FailoverCleanup => cluster_table'.status # None]_vars

(***************************************************************************)
(* Properties of the blocklist as a whole.                                 *)
(***************************************************************************)
\* A pattern of the set that a different pattern of the set blocks.
Redundant(blocked, r) ==
    \E b \in blocked : b # r /\ should_be_blocked_by(r, b)

\* C36 as stated: no pattern in the set is blocked by a different pattern in
\* the set, and patterns are never removed.
C36_AsStated ==
    /\ [](\A r \in blocked_resources : ~Redundant(blocked_resources, r))
    /\ [][blocked_resources \subseteq blocked_resources']_vars

\* C36, amended: no pattern is inserted that a pattern already in the set
\* blocks (a pattern inserted later may block narrower ones inserted before
\* it, which stay in the set), and patterns are never removed.
C36_NoBlockedInsert ==
    /\ [][\A r \in blocked_resources' \ blocked_resources :
              ~\E b \in blocked_resources : should_be_blocked_by(r, b)]_vars
    /\ [][blocked_resources \subseteq blocked_resources']_vars

\* Starting from the empty set, a zonal pattern was added and then the
\* pattern for its whole region: both are in the set.
C36_Witness ==
    /\ classified.op = "add"
    /\ classified.n = 2
    /\ Cardinality(classified.before) = 1
    /\ Cardinality(blocked_resources) = 2
    /\ classified.resources.zone = None
    /\ \E r \in classified.before : r.zone # None /\ should_be_blocked_by(r, classified.resources)

(***************************************************************************)
(* Properties of the Lambda API helper.                                    *)
(***************************************************************************)
\* The HTTP requests sent so far, by the status of their responses.
Sent == lambda_call.responses
LastStatus == Sent[Len(Sent)].status_code

\* C37: _try_request_with_backoff sends at most MAX_ATTEMPTS requests per
\* call; it retries only on status 429, returns the response on the first
\* 200, raises LambdaCloudError at once on any other status, and raises the
\* rate-limit LambdaCloudError when the sixth request is still 429.
C37_BoundedBackoff ==
    /\ Len(Sent) <= MAX_ATTEMPTS
    /\ \A k \in 1..(Len(Sent) - 1) : Sent[k].status_code = 429
    /\ Sent # <<>> =>
          /\ lambda_call.pc = "for" <=> (LastStatus = 429 /\ Len(Sent) < MAX_ATTEMPTS)
          /\ lambda_call.pc = "returned response" <=> LastStatus = 200
          /\ lambda_call.pc = "LambdaCloudError" <=> (LastStatus \notin {200, 429} \/ (LastStatus = 429 /\ Len(Sent) = MAX_ATTEMPTS))
          /\ (LastStatus = 429 /\ Len(Sent) = MAX_ATTEMPTS) => lambda_call.error = "Your API requests are being rate limited."

\* The sixth request was still rate limited and the call gave up.
C37_Witness ==
    /\ lambda_call.pc = "LambdaCloudError"
    /\ Len(Sent) = MAX_ATTEMPTS
    /\ LastStatus = 429
    /\ lambda_call.error = "Your API requests are being rate limited."

(***************************************************************************)
(* Properties of kill_requests.                                            *)
(***************************************************************************)
\* The id kill_requests is working on.
GivenId == killer.request_ids[killer.i]

\* The step changes nothing but rows that were PENDING or RUNNING and belong
\* to no internal daemon, and leaves them CANCELLED.
OnlyLiveRequestsCancelled ==
    /\ {row.request_id : row \in request_table'} = {row.request_id : row \in request_table}
    /\ \A row \in request_table \ request_table' :
         /\ row.status \in {"PENDING", "RUNNING"}
         /\ row.request_id \notin InternalDaemonIds
         /\ \E new \in request_table' : new.request_id = row.request_id /\ new.status = "CANCELLED"

FinishedStaysFinished ==
    \A row \in request_table :
       row.status \in finished_status =>
          \E new \in request_table' : new.request_id = row.request_id /\ new.status = row.status

\* A write through update_request replaces the row that was read, so that
\* no update made in between is lost.
NoLostUpdate ==
    /\ (killer.pc = "with" /\ killer.request_record # <<>> /\ request_table' # request_table)
          => killer.request_record[1] \in request_table
    /\ (worker.pc = "with" /\ worker' # worker)
          => worker.request_task[1] \in request_table

\* C39: in any interleaving of kill_requests with a worker's set_request_*
\* on the same request, a stored SUCCEEDED, FAILED or CANCELLED status never
\* changes again and no update through update_request is lost.
C39_FinishedAbsorbing == [][FinishedStaysFinished /\ NoLostUpdate]_vars

(***************************************************************************)
(* Properties of clean_finished_requests_with_retention.                   *)
(***************************************************************************)
\* The rows the step deletes.
Deleted == {row \in request_table : \A new \in request_table' : new.request_id # row.request_id}

\* C40: clean_finished_requests_with_retention deletes only requests whose
\* status is SUCCEEDED, FAILED or CANCELLED and whose finished_at is older
\* than the retention period; PENDING and RUNNING requests are never
\* deleted, and the log file of a request is removed before its row.
C40_RetentionCleanup ==
    [][\A row \in Deleted :
          /\ row.status \in {"SUCCEEDED", "FAILED", "CANCELLED"}
          /\ row.status \notin {"PENDING", "RUNNING"}
          /\ row.finished_at # <<>>
          /\ row.finished_at[1] < now - cleaner.retention_seconds
          /\ row.request_id \notin log_files]_vars

\* The cleanup returned having deleted the requests it selected and their
\* log files while a running request and its log file stay.
C40_Witness ==
    /\ cleaner.pc = "returned"
    /\ cleaner.retention_seconds = 1
    /\ cleaner.reqs # {}
    /\ \A req \in cleaner.reqs : req \notin request_table /\ req.request_id \notin log_files
    /\ \E row \in request_table : row.status = "RUNNING" /\ row.request_id \in log_files

====
